---- MODULE Spec2Model ----
(***************************************************************************)
(* Model of the bookshelf scanner server (src/server.js): the adaptive     *)
(* image partitioner tileImage, the deduplicator deduplicateBooks, the     *)
(* POST /api/scan pipeline that sequences overview, partitioning, the      *)
(* parallel per-tile identification, deduplication and the verify pass,    *)
(* and the metadata lookup: authorsMatch, lookupOneBook and its cascade of *)
(* search strategies, and POST /api/lookup.                                *)
(*                                                                         *)
(* JavaScript strings are tuples of one-character strings, so that         *)
(* toLowerCase and the regular-expression replace are computed character   *)
(* by character.                                                           *)
(***************************************************************************)
EXTENDS Integers, Sequences, FiniteSets, TLC

\* ------------------------------------------------------------------------
\* Strings
\* ------------------------------------------------------------------------

UpperLetters == <<"A","B","C","D","E","F","G","H","I","J","K","L","M",
                  "N","O","P","Q","R","S","T","U","V","W","X","Y","Z">>

LowerLetters == <<"a","b","c","d","e","f","g","h","i","j","k","l","m",
                  "n","o","p","q","r","s","t","u","v","w","x","y","z">>

Digits == {"0","1","2","3","4","5","6","7","8","9"}

\* The lower-case letter of each upper-case letter.
UpperToLower ==
  [c \in {UpperLetters[i] : i \in 1..26} |->
     LowerLetters[CHOOSE i \in 1..26 : UpperLetters[i] = c]]

\* String.prototype.toLowerCase on one character.
ToLowerChar(c) == IF c \in DOMAIN UpperToLower THEN UpperToLower[c] ELSE c

toLowerCase(s) == [i \in 1..Len(s) |-> ToLowerChar(s[i])]

\* The characters the class [a-z0-9] matches.
LowerAlnumChars == {LowerLetters[i] : i \in 1..26} \cup Digits

IsLowerAlnum(c) == c \in LowerAlnumChars

\* s.replace(/[^a-z0-9]/g, ""): the characters of s that are not in the class
\* are removed, the others keep their order.
RECURSIVE StripNonAlnum(_)
StripNonAlnum(s) ==
  IF s = <<>> THEN <<>>
  ELSE IF IsLowerAlnum(Head(s))
       THEN <<Head(s)>> \o StripNonAlnum(Tail(s))
       ELSE StripNonAlnum(Tail(s))

\* normalizeTitle(t): (t || "").toLowerCase().replace(/[^a-z0-9]/g, "").trim().
\* A missing title is the empty string here, as (t || "") makes it; after the
\* replace no white space is left, so trim() changes nothing.
normalizeTitle(t) == StripNonAlnum(toLowerCase(t))

\* ------------------------------------------------------------------------
\* Image partitioning: tileImage
\* ------------------------------------------------------------------------

\* Below this size on both sides an image is not tiled.
SmallImageThreshold == 1200

\* overlapFrac = 0.15, as a percentage.
OverlapPercent == 15

\* Math.round(n / d) for integers n >= 0, d > 0: halves round up.
RoundDiv(n, d) == (2 * n + d) \div (2 * d)

\* Math.round(cell * overlapFrac).
RoundOverlap(cell) == RoundDiv(cell * OverlapPercent, 100)

Max(a, b) == IF a >= b THEN a ELSE b
Min(a, b) == IF a <= b THEN a ELSE b

\* The parsed overview is null (the pass failed) or an object with the counts;
\* a count the object lacks reads as 0 here, which is what || makes of undefined.
NoOverview == [kind |-> "null", count |-> 0, shelves |-> 0]

OverviewOf(c, s) == [kind |-> "object", count |-> c, shelves |-> s]

\* overview?.count || 0
bookCountOf(overview) == IF overview.kind = "null" THEN 0 ELSE overview.count

\* overview?.shelves || 1
shelvesOf(overview) ==
  IF overview.kind = "null" \/ overview.shelves = 0 THEN 1 ELSE overview.shelves

gridCols(w, overview) ==
  IF bookCountOf(overview) >= 40 \/ w >= 3000 THEN 4
  ELSE IF bookCountOf(overview) >= 20 \/ w >= 2000 THEN 3
  ELSE 2

\* gridRows with the tests of the height lost: the shelves alone decide.
gridRowsShelvesOnly(h, overview) ==
  IF shelvesOf(overview) >= 4 THEN 4
  ELSE IF shelvesOf(overview) >= 2 THEN Max(shelvesOf(overview), 2)
  ELSE 1

gridRows(h, overview) ==
  IF shelvesOf(overview) >= 4 \/ h >= 3000 THEN 4
  ELSE IF shelvesOf(overview) >= 2 \/ h >= 1600 THEN Max(shelvesOf(overview), 2)
  ELSE 1

\* gridRegion with the overlap added on the left and top sides only, so that two
\* neighbours share one padding instead of two.
gridRegionOneSided(w, h, cols, rows, row, col) ==
  LET cellW  == RoundDiv(w, cols)
      cellH  == RoundDiv(h, rows)
      padL   == IF col > 0 THEN RoundOverlap(cellW) ELSE 0
      padT   == IF row > 0 THEN RoundOverlap(cellH) ELSE 0
      left   == Max(0, col * cellW - padL)
      top    == Max(0, row * cellH - padT)
      right  == Min(w, (col + 1) * cellW)
      bottom == Min(h, (row + 1) * cellH)
  IN  [left |-> left, top |-> top,
       width |-> right - left, height |-> bottom - top,
       label |-> [kind |-> "cell", row |-> row + 1, col |-> col + 1]]

\* The region pushed for grid cell (row, col), both counted from 0.
gridRegion(w, h, cols, rows, row, col) ==
  LET cellW  == RoundDiv(w, cols)
      cellH  == RoundDiv(h, rows)
      padL   == IF col > 0        THEN RoundOverlap(cellW) ELSE 0
      padR   == IF col < cols - 1 THEN RoundOverlap(cellW) ELSE 0
      padT   == IF row > 0        THEN RoundOverlap(cellH) ELSE 0
      padB   == IF row < rows - 1 THEN RoundOverlap(cellH) ELSE 0
      left   == Max(0, col * cellW - padL)
      top    == Max(0, row * cellH - padT)
      right  == Min(w, (col + 1) * cellW + padR)
      bottom == Min(h, (row + 1) * cellH + padB)
  IN  [left |-> left, top |-> top,
       width |-> right - left, height |-> bottom - top,
       label |-> [kind |-> "cell", row |-> row + 1, col |-> col + 1]]

\* The one tile of a small image: the whole (enhanced) image.
fullImageRegion(w, h) ==
  [left |-> 0, top |-> 0, width |-> w, height |-> h,
   label |-> [kind |-> "full image", row |-> 0, col |-> 0]]

\* tileImage taking the small-image path on the width alone.
tileImageWidthOnly(w, h, overview) ==
  IF w < SmallImageThreshold
  THEN <<fullImageRegion(w, h)>>
  ELSE LET cols == gridCols(w, overview)
           rows == gridRows(h, overview)
       IN  [k \in 1..(rows * cols) |->
              gridRegion(w, h, cols, rows, (k - 1) \div cols, (k - 1) % cols)]

\* tileImage(buffer, overview) for an image of w x h pixels: the regions in the
\* order they are pushed (row by row, columns left to right).
tileImage(w, h, overview) ==
  IF w < SmallImageThreshold /\ h < SmallImageThreshold
  THEN <<fullImageRegion(w, h)>>
  ELSE LET cols == gridCols(w, overview)
           rows == gridRows(h, overview)
       IN  [k \in 1..(rows * cols) |->
              gridRegion(w, h, cols, rows, (k - 1) \div cols, (k - 1) % cols)]

\* ------------------------------------------------------------------------
\* Deduplication: deduplicateBooks
\* ------------------------------------------------------------------------

\* confRank[c] || 0
confRank(c) ==
  CASE c = "high"   -> 3
    [] c = "medium" -> 2
    [] c = "low"    -> 1
    [] OTHER        -> 0

\* A JavaScript Map is a sequence of entries in insertion order.
MapHas(map, key) == \E i \in 1..Len(map) : map[i].key = key

MapGet(map, key) == map[CHOOSE i \in 1..Len(map) : map[i].key = key].value

\* map.set(key, value): a new key is appended, a key already in the map keeps
\* its place and takes the new value.
MapSet(map, key, value) ==
  IF MapHas(map, key)
  THEN [i \in 1..Len(map) |->
          IF map[i].key = key THEN [key |-> key, value |-> value] ELSE map[i]]
  ELSE Append(map, [key |-> key, value |-> value])

\* [...map.values()]
MapValues(map) == [i \in 1..Len(map) |-> map[i].value]

\* dedupReplaces with the comparison lost: the first entry seen is always kept.
dedupReplacesNever(existing, book) == FALSE

\* dedupReplaces with >= for >: an entry of equal rank replaces the kept one.
dedupReplacesOnTie(existing, book) ==
  confRank(book.confidence) >= confRank(existing.confidence)

\* Whether the loop body replaces the entry kept for the book's key.
dedupReplaces(existing, book) ==
  confRank(book.confidence) > confRank(existing.confidence)

\* dedupStep without the "if (!key) continue" guard.
dedupStepNoKeyGuard(map, book) ==
  LET key == normalizeTitle(book.title)
  IN  IF ~MapHas(map, key) \/ dedupReplaces(MapGet(map, key), book)
      THEN MapSet(map, key, book)
      ELSE map

\* One iteration of the loop of deduplicateBooks.
dedupStep(map, book) ==
  LET key == normalizeTitle(book.title)
  IN  IF key = <<>> THEN map
      ELSE IF ~MapHas(map, key) \/ dedupReplaces(MapGet(map, key), book)
           THEN MapSet(map, key, book)
           ELSE map

RECURSIVE dedupLoop(_, _)
dedupLoop(map, books) ==
  IF books = <<>> THEN map
  ELSE dedupLoop(dedupStep(map, Head(books)), Tail(books))

\* dedupValues listing the map's values last inserted first.
dedupValuesReversed(map) == [i \in 1..Len(map) |-> map[Len(map) + 1 - i].value]

\* The list deduplicateBooks returns.
dedupValues(map) == MapValues(map)

deduplicateBooks(allBooks) == dedupValues(dedupLoop(<<>>, allBooks))

\* book.title of null throws a TypeError: the loop throws on such an element.
dedupThrows(allBooks) == \E i \in 1..Len(allBooks) : allBooks[i].kind = "null"

\* ------------------------------------------------------------------------
\* JavaScript values the services return
\* ------------------------------------------------------------------------

\* An element of a parsed response: an object with the fields of a detection
\* (a field the object lacks is the empty string), null, or a number.
Detection(t, a, c) ==
  [kind |-> "object", title |-> t, author |-> a, confidence |-> c,
   corrected |-> FALSE]

NullValue ==
  [kind |-> "null", title |-> <<>>, author |-> <<>>, confidence |-> "",
   corrected |-> FALSE]

NumberValue ==
  [kind |-> "number", title |-> <<>>, author |-> <<>>, confidence |-> "",
   corrected |-> FALSE]

\* All sequences over S of length at most n.
SeqUpTo(S, n) == UNION {[1..k -> S] : k \in 0..n}

\* ------------------------------------------------------------------------
\* Metadata lookup: authorsMatch and isSummaryKnockoff
\* ------------------------------------------------------------------------

\* The characters \s matches among those the model's strings are made of.
IsSpace(c) == c = " "

\* String.prototype.trim.
RECURSIVE trimStart(_)
trimStart(s) ==
  IF s # <<>> /\ IsSpace(Head(s)) THEN trimStart(Tail(s)) ELSE s

RECURSIVE trimEnd(_)
trimEnd(s) ==
  IF s # <<>> /\ IsSpace(s[Len(s)])
  THEN trimEnd(SubSeq(s, 1, Len(s) - 1))
  ELSE s

trim(s) == trimEnd(trimStart(s))

\* s.split(/\s+/) from position i on, with the piece read so far in cur and
\* the finished pieces in acc: every run of white space ends one piece, so
\* white space at either end of s yields an empty piece there.
RECURSIVE splitFrom(_, _, _, _)
splitFrom(s, i, cur, acc) ==
  IF i > Len(s) THEN Append(acc, cur)
  ELSE IF IsSpace(s[i])
       THEN IF i > 1 /\ IsSpace(s[i - 1])
            THEN splitFrom(s, i + 1, cur, acc)
            ELSE splitFrom(s, i + 1, <<>>, Append(acc, cur))
       ELSE splitFrom(s, i + 1, Append(cur, s[i]), acc)

splitSpaces(s) == splitFrom(s, 1, <<>>, <<>>)

\* words.filter(w => w.length > 2)
RECURSIVE longWords(_)
longWords(ws) ==
  IF ws = <<>> THEN <<>>
  ELSE IF Len(Head(ws)) > 2
       THEN <<Head(ws)>> \o longWords(Tail(ws))
       ELSE longWords(Tail(ws))

\* s.includes(part)
includes(s, part) ==
  \E i \in 0..(Len(s) - Len(part)) : SubSeq(s, i + 1, i + Len(part)) = part

\* s.startsWith(prefix)
startsWith(s, prefix) ==
  Len(s) >= Len(prefix) /\ SubSeq(s, 1, Len(prefix)) = prefix

\* The characters the class [a-z\s] matches.
LowerOrSpaceChars == {LowerLetters[i] : i \in 1..26} \cup {" "}

\* s.replace(/[^a-z\s]/g, "")
RECURSIVE stripNonLetters(_)
stripNonLetters(s) ==
  IF s = <<>> THEN <<>>
  ELSE IF Head(s) \in LowerOrSpaceChars
       THEN <<Head(s)>> \o stripNonLetters(Tail(s))
       ELSE stripNonLetters(Tail(s))

\* norm inside authorsMatch.
authorNorm(s) == trim(stripNonLetters(toLowerCase(s)))

\* norm(s).split(/\s+/).filter(w => w.length > 2)
authorWords(s) == longWords(splitSpaces(authorNorm(s)))

\* Math.ceil(n / 2)
CeilHalf(n) == (n + 1) \div 2

Unknown == <<"U","n","k","n","o","w","n">>

\* authorWordsMatch comparing the last words only.
authorWordsMatchLastOnly(expected, candidate) ==
  LET expWords  == authorWords(expected)
      candWords == authorWords(candidate)
  IN  IF expWords = <<>> THEN TRUE
      ELSE candWords # <<>> /\ expWords[Len(expWords)] = candWords[Len(candWords)]

\* The part of authorsMatch after the early return: the comparison of words.
authorWordsMatch(expected, candidate) ==
  LET expWords  == authorWords(expected)
      candWords == authorWords(candidate)
  IN  IF expWords = <<>> THEN TRUE
      ELSE IF candWords # <<>> /\ expWords[Len(expWords)] = candWords[Len(candWords)]
           THEN TRUE
           ELSE LET matching ==
                      {k \in 1..Len(expWords) :
                         \E j \in 1..Len(candWords) :
                           \/ includes(candWords[j], expWords[k])
                           \/ includes(expWords[k], candWords[j])}
                IN  Cardinality(matching) >= CeilHalf(Len(expWords))

\* authorsMatch without the early return for "Unknown".
authorsMatchKnownOnly(expected, candidate) ==
  IF expected = <<>> \/ candidate = <<>> THEN TRUE
  ELSE authorWordsMatch(expected, candidate)

\* authorsMatch(expected, candidate); an author that is missing is the empty
\* string here, which the test !expected treats alike.
authorsMatch(expected, candidate) ==
  IF expected = <<>> \/ expected = Unknown \/ candidate = <<>> THEN TRUE
  ELSE authorWordsMatch(expected, candidate)

Summary == <<"s","u","m","m","a","r","y">>
Review == <<"r","e","v","i","e","w">>
Analysis == <<"a","n","a","l","y","s","i","s">>
AnalysisOf == <<"a","n","a","l","y","s","i","s"," ","o","f">>

\* isSummaryKnockoff with the test for "summary" alone.
isSummaryKnockoffSummaryOnly(resultTitle, queryTitle) ==
  LET rt == toLowerCase(resultTitle)
      qt == toLowerCase(queryTitle)
  IN  ~startsWith(qt, Summary) /\ startsWith(rt, Summary)

\* isSummaryKnockoff(resultTitle, queryTitle); a missing title is the empty
\* string, as (title || "") makes it.
isSummaryKnockoff(resultTitle, queryTitle) ==
  LET rt == toLowerCase(resultTitle)
      qt == toLowerCase(queryTitle)
  IN  \/ ~startsWith(qt, Summary) /\ startsWith(rt, Summary)
      \/ ~startsWith(qt, Review) /\ startsWith(rt, Review)
      \/ ~startsWith(qt, Analysis) /\ startsWith(rt, AnalysisOf)

\* ------------------------------------------------------------------------
\* Metadata lookup: lookupOneBook
\* ------------------------------------------------------------------------

\* array.join(sep)
RECURSIVE join(_, _)
join(ws, sep) ==
  IF ws = <<>> THEN <<>>
  ELSE IF Len(ws) = 1 THEN ws[1]
  ELSE ws[1] \o sep \o join(Tail(ws), sep)

CommaSpace == <<",", " ">>

\* The characters of [:\u2014\-\u2013] that occur in the model's titles (the
\* two long dashes do not).
SubtitleSeparators == {":", "-"}

\* title.split(/[:\u2014\-\u2013]/)[0]: the title up to its first separator.
RECURSIVE beforeSeparator(_)
beforeSeparator(s) ==
  IF s = <<>> \/ Head(s) \in SubtitleSeparators THEN <<>>
  ELSE <<Head(s)>> \o beforeSeparator(Tail(s))

\* The length of the strategies array.
NumStrategies == 6

\* A record is an object with an author and, unless the title is missing, a
\* title; book.title of a record without one is undefined.
hasTitle(book) == "title" \in DOMAIN book

\* (book.title || "")
titleOf(book) == IF hasTitle(book) THEN book.title ELSE <<>>

\* What a template literal makes of undefined.
UndefinedText == <<"u","n","d","e","f","i","n","e","d">>

\* strategy.query() of strategy k for the record, where it returns: the
\* undefined that strategies 2, 3 and 5 return for a record without a title is
\* the empty string here, which the test of the query treats alike.
strategyQuery(book, k) ==
  CASE k = 1 -> trim((IF hasTitle(book) THEN book.title ELSE UndefinedText)
                     \o <<" ">>
                     \o (IF book.author # Unknown THEN book.author ELSE <<>>))
    [] k \in {2, 3, 5} -> titleOf(book)
    [] k \in {4, 6} -> trim(beforeSeparator(titleOf(book)))

\* strategy.query() throws a TypeError: book.title.split of a record without
\* a title. The call stands before the try block of the loop.
queryThrows(book, k) == k \in {4, 6} /\ ~hasTitle(book)

\* useAuthorFilter with the filter on the first strategy alone.
useAuthorFilterFirstOnly(k) == k = 1

\* strategy.useAuthorFilter
useAuthorFilter(k) == k \in {1, 2, 3, 4}

\* strategy.titleField: the search goes to the title field.
titleField(k) == k \in {3, 5}

\* queryUsable letting every query but the empty one run.
queryUsableNonEmpty(q) == q # <<>>

\* The test that lets a strategy run: not (!query || query.length < 2).
queryUsable(q) == q # <<>> /\ Len(q) >= 2

\* The characters the class [a-z0-9\s] matches.
LowerAlnumOrSpaceChars == LowerAlnumChars \cup {" "}

\* s.replace(/[^a-z0-9\s]/g, "")
RECURSIVE stripNonAlnumSpace(_)
stripNonAlnumSpace(s) ==
  IF s = <<>> THEN <<>>
  ELSE IF Head(s) \in LowerAlnumOrSpaceChars
       THEN <<Head(s)>> \o stripNonAlnumSpace(Tail(s))
       ELSE stripNonAlnumSpace(Tail(s))

\* normQ and normT: the lower-case alphanumeric words longer than 2.
titleWords(s) == longWords(splitSpaces(stripNonAlnumSpace(toLowerCase(s))))

\* titleOverlap of a query and a document's title.
titleOverlap(query, docTitle) ==
  LET normQ == titleWords(query)
      normT == titleWords(docTitle)
  IN  \E i \in 1..Len(normQ) : \E j \in 1..Len(normT) :
        includes(normT[j], normQ[i]) \/ includes(normQ[i], normT[j])

\* (doc.author_name || []).join(", ")
candidateAuthor(doc) == join(doc.author_name, CommaSpace)

\* accepts without the test of the title's words.
acceptsAnyTitle(book, k, doc) ==
  /\ ~isSummaryKnockoff(doc.title, titleOf(book))
  /\ useAuthorFilter(k) => authorsMatch(book.author, candidateAuthor(doc))

\* The body of the loop over docs does not `continue` for this document.
accepts(book, k, doc) ==
  /\ ~isSummaryKnockoff(doc.title, titleOf(book))
  /\ useAuthorFilter(k) => authorsMatch(book.author, candidateAuthor(doc))
  /\ titleOverlap(strategyQuery(book, k), doc.title)
       \/ titleWords(strategyQuery(book, k)) = <<>>

\* The loop does not `continue` over strategy k: its query throws or is long
\* enough to be searched for.
runsStrategy(book, k) ==
  queryThrows(book, k) \/ queryUsable(strategyQuery(book, k))

\* nextStrategy searching again for the strategy that accepted nothing.
nextStrategyRetrying(book, k) ==
  IF k >= 1 THEN k
  ELSE IF \E n \in 1..NumStrategies : runsStrategy(book, n)
  THEN CHOOSE n \in 1..NumStrategies :
         /\ runsStrategy(book, n)
         /\ \A m \in 1..(n - 1) : ~runsStrategy(book, m)
  ELSE NumStrategies + 1

\* The first strategy after k the loop does not `continue` over,
\* NumStrategies + 1 if there is none.
nextStrategy(book, k) ==
  IF \E n \in (k + 1)..NumStrategies : runsStrategy(book, n)
  THEN CHOOSE n \in (k + 1)..NumStrategies :
         /\ runsStrategy(book, n)
         /\ \A m \in (k + 1)..(n - 1) : ~runsStrategy(book, m)
  ELSE NumStrategies + 1

\* (doc.isbn || []).find(i => i.length === n) || ""
firstOfLength(isbns, n) ==
  IF \E i \in 1..Len(isbns) : Len(isbns[i]) = n
  THEN isbns[CHOOSE i \in 1..Len(isbns) :
               /\ Len(isbns[i]) = n
               /\ \A j \in 1..(i - 1) : Len(isbns[j]) # n]
  ELSE <<>>

\* coverUrl: null without a cover id, else the address made of the id.
NullCover == [kind |-> "null", id |-> 0]
coverUrlOf(coverId) ==
  IF coverId = 0 THEN NullCover ELSE [kind |-> "cover url", id |-> coverId]

\* list.slice(0, 3)
firstThree(list) == SubSeq(list, 1, Min(3, Len(list)))

\* docToResult(doc, originalBook). A number the document lacks is 0 (the
\* code returns "" for it), a list it lacks is empty, and a title that
\* neither the document nor the record has is the empty string.
docToResult(doc, originalBook) ==
  [title       |-> IF doc.title # <<>> THEN doc.title
                   ELSE titleOf(originalBook),
   author      |-> IF candidateAuthor(doc) # <<>> THEN candidateAuthor(doc)
                   ELSE originalBook.author,
   isbn13      |-> firstOfLength(doc.isbn, 13),
   isbn10      |-> firstOfLength(doc.isbn, 10),
   coverUrl    |-> coverUrlOf(doc.cover_i),
   publishYear |-> doc.first_publish_year,
   publisher   |-> IF doc.publisher = <<>> THEN <<>> ELSE doc.publisher[1],
   pages       |-> doc.number_of_pages_median,
   subjects    |-> join(firstThree(doc.subject), CommaSpace),
   matched     |-> TRUE]

\* { ...book, matched: false }
unmatchedResult(book) ==
  [f \in DOMAIN book \cup {"matched"} |->
     IF f = "matched" THEN FALSE ELSE book[f]]

\* What searchOpenLibrary and searchOpenLibraryByTitle return for what the
\* service did: the documents of an OK reply, [] for everything else.
searchResult(reply) == IF reply.kind = "ok" THEN reply.docs ELSE <<>>

\* ------------------------------------------------------------------------
\* State
\* ------------------------------------------------------------------------

VARIABLES
  tw, th, toverview,   \* tileImage: the image's width and height, the overview
  tregions,            \* tileImage: the regions computed
  tpc,                 \* tileImage: "idle", "input", "tiled"
  dbooks,              \* deduplicateBooks: the list passed in
  dout,                \* deduplicateBooks: the list returned
  dagain,              \* deduplicateBooks: the list returned for dout
  dpc,                 \* deduplicateBooks: "idle", "input", "once", "twice"
  pc,                  \* POST /api/scan: where the handler is
  fileOnDisk,          \* the uploaded photo is in the upload directory
  imageW, imageH,      \* the uploaded image's width and height
  overview,            \* the handler's overview
  overviewOutcome,     \* how pass 1 ended
  overviewCalls,       \* requests made to the model for pass 1
  tiles,               \* the tiles tileImage returned
  tilePromises,        \* per tile: "pending", "fulfilled", "rejected"
  tileResults,         \* per tile: the parsed response
  identifyCalls,       \* per tile: requests made to the model for pass 2
  allBooks,            \* tileResults.flat()
  dedupedBooks,        \* deduplicateBooks(allBooks)
  verifyOutcome,       \* how pass 3 ended
  verifyCalls,         \* requests made to the model for pass 3
  books,               \* what verifyAndCleanBooks returned
  responses,           \* the responses sent for the request
  stages,              \* the stages started, in order
  aexpected,           \* authorsMatch: the author the record names
  acandidate,          \* authorsMatch: the candidate's authors, joined
  aresult,             \* authorsMatch: the value returned
  apc,                 \* authorsMatch: "idle", "input", "matched"
  rbook,               \* lookupOneBook: the record passed in
  rstrategy,           \* lookupOneBook: the strategy whose search is awaited
  rreply,              \* lookupOneBook: what the latest search returned
  rsearches,           \* lookupOneBook: the searches issued so far
  raccepted,           \* lookupOneBook: strategy and rank of the accepted doc
  rresult,             \* lookupOneBook: the value returned
  rpc,                 \* lookupOneBook: "idle", "input", "searching", "done"
  lbody,               \* POST /api/lookup: req.body.books
  lstrategy,           \* per record: the strategy whose search is awaited
  lresults,            \* per record: what lookupOneBook resolved to
  lorder,              \* the records in the order their lookups completed
  lresponses,          \* the responses sent
  lpc,                 \* POST /api/lookup: where the handler is
  fpromises,           \* fan-in: per tile "pending", "fulfilled", "rejected"
  fresults,            \* fan-in: per tile the parsed response
  forder,              \* fan-in: the tiles in the order their calls ended
  fallBooks,           \* fan-in: tileResults.flat()
  fdeduped,            \* fan-in: deduplicateBooks(allBooks)
  fpc                  \* fan-in: "idle", "identify", "deduped", "failed"

tileVars == <<tw, th, toverview, tregions, tpc>>
dedupVars == <<dbooks, dout, dagain, dpc>>
scanVars == <<pc, fileOnDisk, imageW, imageH, overview, overviewOutcome,
              overviewCalls, tiles, tilePromises, tileResults, identifyCalls,
              allBooks, dedupedBooks, verifyOutcome, verifyCalls, books,
              responses, stages>>
authorVars == <<aexpected, acandidate, aresult, apc>>
resolveVars == <<rbook, rstrategy, rreply, rsearches, raccepted, rresult, rpc>>
lookupVars == <<lbody, lstrategy, lresults, lorder, lresponses, lpc>>
resolverVars == <<authorVars, resolveVars, lookupVars>>
fanInVars == <<fpromises, fresults, forder, fallBooks, fdeduped, fpc>>

vars == <<tileVars, dedupVars, scanVars, resolverVars, fanInVars>>

TileIdle ==
  /\ tw = 0 /\ th = 0 /\ toverview = NoOverview /\ tregions = <<>>
  /\ tpc = "idle"

DedupIdle == dbooks = <<>> /\ dout = <<>> /\ dagain = <<>> /\ dpc = "idle"

\* The server with no scan request received yet.
ScanIdle ==
  /\ pc = "idle"
  /\ fileOnDisk = FALSE
  /\ imageW = 0 /\ imageH = 0
  /\ overview = NoOverview
  /\ overviewOutcome = "none"
  /\ overviewCalls = 0
  /\ tiles = <<>>
  /\ tilePromises = <<>>
  /\ tileResults = <<>>
  /\ identifyCalls = <<>>
  /\ allBooks = <<>>
  /\ dedupedBooks = <<>>
  /\ verifyOutcome = "none"
  /\ verifyCalls = 0
  /\ books = <<>>
  /\ responses = <<>>
  /\ stages = <<>>

AuthorsIdle ==
  aexpected = <<>> /\ acandidate = <<>> /\ aresult = FALSE /\ apc = "idle"

\* The value of a result that has not been produced yet.
NoRecord == [matched |-> "pending"]

\* What stands for the result of a lookupOneBook call that threw.
RejectedRecord == [matched |-> "rejected"]

\* What rreply holds before any search has returned.
NoReply == [kind |-> "none", docs |-> <<>>]

\* What raccepted holds while no document has been accepted.
NotAccepted == [strategy |-> 0, rank |-> 0]

ResolveIdle ==
  /\ rbook = NoRecord /\ rstrategy = 0 /\ rreply = NoReply
  /\ rsearches = <<>> /\ raccepted = NotAccepted /\ rresult = NoRecord
  /\ rpc = "idle"

\* req.body.books: an array of records, something else, or nothing yet.
ArrayBody(list) == [kind |-> "array", books |-> list]
NotAnArray == [kind |-> "not an array", books |-> <<>>]
NoBody == [kind |-> "none", books |-> <<>>]

\* The server with no lookup request received yet.
LookupIdle ==
  /\ lbody = NoBody /\ lstrategy = <<>> /\ lresults = <<>>
  /\ lorder = <<>> /\ lresponses = <<>> /\ lpc = "idle"

ResolverIdle == AuthorsIdle /\ ResolveIdle /\ LookupIdle

FanInIdle ==
  /\ fpromises = <<>> /\ fresults = <<>> /\ forder = <<>>
  /\ fallBooks = <<>> /\ fdeduped = <<>> /\ fpc = "idle"

\* ------------------------------------------------------------------------
\* tileImage applied to bounded inputs
\* ------------------------------------------------------------------------

\* Sizes on both sides of the tiling thresholds, multiples and non-multiples
\* of the column and row counts.
LongSides == {1199, 1200, 1201, 1600, 1999, 2000, 2002, 2999, 3000, 3001}

ShortSides == {1, 2, 3, 7}

ImageSizes ==
  (LongSides \X ShortSides) \cup (ShortSides \X LongSides)
    \cup (ShortSides \X ShortSides) \cup {<<800, 600>>}

\* No overview, and overviews on both sides of the count and shelf thresholds.
TileOverviews ==
  {NoOverview} \cup {OverviewOf(c, s) : c \in {0, 19, 20, 40}, s \in {0, 1, 2, 3, 4, 5}}

InitTile ==
  /\ \E size \in ImageSizes : tw = size[1] /\ th = size[2]
  /\ toverview \in TileOverviews
  /\ tregions = <<>>
  /\ tpc = "input"
  /\ DedupIdle
  /\ ScanIdle
  /\ ResolverIdle
  /\ FanInIdle

RunTileImage ==
  /\ tpc = "input"
  /\ tregions' = tileImage(tw, th, toverview)
  /\ tpc' = "tiled"
  /\ UNCHANGED <<tw, th, toverview, dedupVars, scanVars, resolverVars, fanInVars>>

NextTile == RunTileImage

SpecTile == InitTile /\ [][NextTile]_vars

\* ------------------------------------------------------------------------
\* deduplicateBooks applied to bounded inputs
\* ------------------------------------------------------------------------

\* The longest detection list.
MaxDetections == 3

\* The spines detected, as <<title, author>>: two spellings of one title
\* ("Du" and "du"), a title with a character the normalisation strips ("I-t"),
\* and a title the normalisation empties ("-").
DedupSpines ==
  { <<<<"D","u">>, <<"F","H">>>>,
    <<<<"d","u">>, <<"F">>>>,
    <<<<"I","-","t">>, <<"S","K">>>>,
    <<<<"-">>, <<"U">>>> }

\* The three ranked confidences and one the rank table lacks.
Confidences == {"high", "medium", "low", "unsure"}

DedupDetections ==
  {Detection(sp[1], sp[2], c) : sp \in DedupSpines, c \in Confidences}

InitDedup ==
  /\ dbooks \in SeqUpTo(DedupDetections, MaxDetections)
  /\ dout = <<>>
  /\ dagain = <<>>
  /\ dpc = "input"
  /\ TileIdle
  /\ ScanIdle
  /\ ResolverIdle
  /\ FanInIdle

RunDedup ==
  /\ dpc = "input"
  /\ dout' = deduplicateBooks(dbooks)
  /\ dpc' = "once"
  /\ UNCHANGED <<dbooks, dagain, tileVars, scanVars, resolverVars, fanInVars>>

RunDedupAgain ==
  /\ dpc = "once"
  /\ dagain' = deduplicateBooks(dout)
  /\ dpc' = "twice"
  /\ UNCHANGED <<dbooks, dout, tileVars, scanVars, resolverVars, fanInVars>>

NextDedup == RunDedup \/ RunDedupAgain

SpecDedup == InitDedup /\ [][NextDedup]_vars

\* ------------------------------------------------------------------------
\* authorsMatch applied to author names
\* ------------------------------------------------------------------------

\* The most words an author name of the model has.
MaxAuthorWords == 2

\* The words author names are made of: two names, one of them also in capitals
\* with a comma, a name that contains another, an initial and a two-letter
\* word.
AuthorWordChoices ==
  {<<"S","t","e","p","h","e","n">>,
   <<"K","i","n","g">>,
   <<"K","I","N","G",",">>,
   <<"K","i","n","g","s","l","e","y">>,
   <<"S",".">>,
   <<"L","e">>}

\* The words of ws with one space between them.
RECURSIVE joinWords(_)
joinWords(ws) ==
  IF ws = <<>> THEN <<>>
  ELSE IF Len(ws) = 1 THEN ws[1]
  ELSE ws[1] \o <<" ">> \o joinWords(Tail(ws))

\* The author names: up to MaxAuthorWords words, the empty name included, and
\* "Unknown".
AuthorNames ==
  {joinWords(ws) : ws \in SeqUpTo(AuthorWordChoices, MaxAuthorWords)}
    \cup {Unknown}

InitAuthors ==
  /\ aexpected \in AuthorNames
  /\ acandidate \in AuthorNames
  /\ aresult = FALSE
  /\ apc = "input"
  /\ TileIdle /\ DedupIdle /\ ScanIdle /\ ResolveIdle /\ LookupIdle
  /\ FanInIdle

RunAuthorsMatch ==
  /\ apc = "input"
  /\ aresult' = authorsMatch(aexpected, acandidate)
  /\ apc' = "matched"
  /\ UNCHANGED <<aexpected, acandidate, tileVars, dedupVars, scanVars,
                 resolveVars, lookupVars, fanInVars>>

NextAuthors == RunAuthorsMatch

SpecAuthors == InitAuthors /\ [][NextAuthors]_vars

\* ------------------------------------------------------------------------
\* lookupOneBook applied to one record
\* ------------------------------------------------------------------------

\* The most documents a search returns in the model (the code asks for 5).
MaxDocs == 2

\* Records as the scan returns them.
BookDune ==
  [title |-> <<"D","u","n","e">>, author |-> <<"F","r","a","n","k"," ","H","e","r","b","e","r","t">>,
   confidence |-> "high", corrected |-> FALSE]
BookSummaryOfDune ==
  [title |-> <<"S","u","m","m","a","r","y"," ","o","f"," ","D","u","n","e">>, author |-> <<"U","n","k","n","o","w","n">>,
   confidence |-> "medium", corrected |-> FALSE]
BookIt ==
  [title |-> <<"I","t">>, author |-> <<"S","t","e","p","h","e","n"," ","K","i","n","g">>,
   confidence |-> "high", corrected |-> TRUE]
BookX ==
  [title |-> <<"X">>, author |-> <<"S","t","e","p","h","e","n"," ","K","i","n","g">>,
   confidence |-> "low", corrected |-> FALSE]
BookDuneMessiah ==
  [title |-> <<"D","u","n","e",":"," ","M","e","s","s","i","a","h">>, author |-> <<"H","e","r","b","e","r","t">>,
   confidence |-> "medium", corrected |-> TRUE]
BookAnalysis ==
  [title |-> <<"A","n","a","l","y","s","i","s">>, author |-> <<"U","n","k","n","o","w","n">>,
   confidence |-> "high", corrected |-> FALSE]

\* The record the client adds by hand and leaves empty.
BookManual == [title |-> <<>>, author |-> <<>>]

\* A record the scan passed on without a title.
BookNoTitle ==
  [author |-> <<"F","r","a","n","k"," ","H","e","r","b","e","r","t">>, confidence |-> "low", corrected |-> FALSE]

ResolveBooks ==
  {BookDune, BookSummaryOfDune, BookIt, BookX, BookDuneMessiah, BookAnalysis,
   BookManual, BookNoTitle}

\* Documents of the search service; a field the service left out is empty or 0.
DocDune ==
  [title |-> <<"D","u","n","e">>,
   author_name |-> <<<<"F","r","a","n","k"," ","H","e","r","b","e","r","t">>>>,
   isbn |-> <<<<"9","7","8","0","4","4","1","0","1","3","5","9","3">>, <<"0","4","4","1","0","1","3","5","9","7">>>>,
   cover_i |-> 11, first_publish_year |-> 1965,
   publisher |-> <<<<"A","c","e">>, <<"C","h","i","l","t","o","n">>>>,
   number_of_pages_median |-> 412,
   subject |-> <<<<"F","i","c","t","i","o","n">>, <<"D","e","s","e","r","t">>, <<"S","p","i","c","e">>, <<"E","m","p","i","r","e">>>>]
DocSummaryOfDune ==
  [title |-> <<"S","u","m","m","a","r","y"," ","o","f"," ","D","u","n","e">>,
   author_name |-> <<<<"Q","u","i","c","k"," ","R","e","a","d","s">>>>,
   isbn |-> <<>>,
   cover_i |-> 0, first_publish_year |-> 0,
   publisher |-> <<>>,
   number_of_pages_median |-> 0,
   subject |-> <<>>]
DocReviewOfDune ==
  [title |-> <<"R","E","V","I","E","W"," ","o","f"," ","D","u","n","e">>,
   author_name |-> <<<<"Q","u","i","c","k"," ","R","e","a","d","s">>>>,
   isbn |-> <<<<"0","0","0","0","0","0","0","0","0","1">>>>,
   cover_i |-> 0, first_publish_year |-> 2019,
   publisher |-> <<>>,
   number_of_pages_median |-> 0,
   subject |-> <<<<"R","e","v","i","e","w">>>>]
DocAnalysisOfDune ==
  [title |-> <<"A","n","a","l","y","s","i","s"," ","o","f"," ","D","u","n","e">>,
   author_name |-> <<>>,
   isbn |-> <<>>,
   cover_i |-> 12, first_publish_year |-> 0,
   publisher |-> <<<<"N","o","t","e","s">>>>,
   number_of_pages_median |-> 40,
   subject |-> <<>>]
DocEmma ==
  [title |-> <<"E","m","m","a">>,
   author_name |-> <<<<"J","a","n","e"," ","A","u","s","t","e","n">>>>,
   isbn |-> <<<<"9","7","8","0","1","4","1","4","3","9","5","8","7">>>>,
   cover_i |-> 13, first_publish_year |-> 1815,
   publisher |-> <<<<"P","e","n","g","u","i","n">>>>,
   number_of_pages_median |-> 474,
   subject |-> <<<<"F","i","c","t","i","o","n">>, <<"E","n","g","l","a","n","d">>>>]
DocDuneMessiah ==
  [title |-> <<"D","u","n","e"," ","M","e","s","s","i","a","h">>,
   author_name |-> <<<<"F","r","a","n","k"," ","H","e","r","b","e","r","t">>, <<"B","r","i","a","n"," ","H","e","r","b","e","r","t">>>>,
   isbn |-> <<<<"9","7","8","0","4","4","1","1","7","2","6","9","6">>>>,
   cover_i |-> 14, first_publish_year |-> 1969,
   publisher |-> <<<<"A","c","e">>>>,
   number_of_pages_median |-> 256,
   subject |-> <<<<"F","i","c","t","i","o","n">>>>]
DocBare ==
  [title |-> <<>>,
   author_name |-> <<>>,
   isbn |-> <<>>,
   cover_i |-> 0, first_publish_year |-> 0,
   publisher |-> <<>>,
   number_of_pages_median |-> 0,
   subject |-> <<>>]

LookupDocs ==
  {DocDune, DocSummaryOfDune, DocReviewOfDune, DocAnalysisOfDune, DocEmma,
   DocDuneMessiah, DocBare}

\* What the service does with one search: the request fails, the status is
\* not OK, the body is not JSON, or it answers with a list of documents.
FailedReplyKinds == {"fetch failed", "not ok", "bad json"}

SearchReply(kind, docs) == [kind |-> kind, docs |-> docs]

SearchReplies ==
  {SearchReply(kind, <<>>) : kind \in FailedReplyKinds}
    \cup {SearchReply("ok", docs) : docs \in SeqUpTo(LookupDocs, MaxDocs)}

\* accepts for every record, strategy and document of the model.
acceptsTable ==
  [book \in ResolveBooks |->
     [k \in 1..NumStrategies |->
        [doc \in LookupDocs |-> accepts(book, k, doc)]]]

\* The rank of the last document of docs the loop would accept, 0 if there is
\* none.
lastAccepted(book, k, docs) ==
  IF \E r \in 1..Len(docs) : acceptsTable[book][k][docs[r]]
  THEN CHOOSE r \in 1..Len(docs) :
         /\ acceptsTable[book][k][docs[r]]
         /\ \A q \in (r + 1)..Len(docs) : ~acceptsTable[book][k][docs[q]]
  ELSE 0

\* The rank of the first document of docs the loop accepts, 0 if there is none.
firstAccepted(book, k, docs) ==
  IF \E r \in 1..Len(docs) : acceptsTable[book][k][docs[r]]
  THEN CHOOSE r \in 1..Len(docs) :
         /\ acceptsTable[book][k][docs[r]]
         /\ \A q \in 1..(r - 1) : ~acceptsTable[book][k][docs[q]]
  ELSE 0

\* The search strategy k issues for the record.
SearchOf(book, k) ==
  [strategy |-> k, titleField |-> titleField(k),
   query |-> strategyQuery(book, k)]

\* lookupOneBook from the top of the loop after strategy k to where it next
\* waits for a search, returns or throws.
enterLoop(book, k) ==
  LET n == nextStrategy(book, k)
  IN  IF n > NumStrategies
      THEN [pc |-> "done", strategy |-> n, rank |-> 0,
            result |-> unmatchedResult(book)]
      ELSE IF queryThrows(book, n)
      THEN [pc |-> "rejected", strategy |-> n, rank |-> 0, result |-> NoRecord]
      ELSE [pc |-> "searching", strategy |-> n, rank |-> 0, result |-> NoRecord]

\* lookupOneBook from the return of the search of strategy k on.
afterSearch(book, k, reply) ==
  LET docs == searchResult(reply)
      r    == firstAccepted(book, k, docs)
  IN  IF r > 0
      THEN [pc |-> "done", strategy |-> k, rank |-> r,
            result |-> docToResult(docs[r], book)]
      ELSE enterLoop(book, k)

InitResolve ==
  /\ rbook \in ResolveBooks
  /\ rstrategy = 0 /\ rreply = NoReply /\ rsearches = <<>>
  /\ raccepted = NotAccepted /\ rresult = NoRecord
  /\ rpc = "input"
  /\ TileIdle /\ DedupIdle /\ ScanIdle /\ AuthorsIdle /\ LookupIdle
  /\ FanInIdle

\* lookupOneBook(book) is called and runs to its first search.
ResolveCall ==
  /\ rpc = "input"
  /\ \E st \in {enterLoop(rbook, 0)} :
         /\ rpc' = st.pc
         /\ rstrategy' = st.strategy
         /\ rresult' = st.result
         /\ rsearches' = IF st.pc = "searching"
                          THEN <<SearchOf(rbook, st.strategy)>>
                          ELSE <<>>
  /\ UNCHANGED <<rbook, rreply, raccepted, tileVars, dedupVars, scanVars,
                 authorVars, lookupVars, fanInVars>>

\* The search lookupOneBook waits for returns.
ResolveSearchReturns ==
  /\ rpc = "searching"
  /\ \E reply \in SearchReplies :
       \E st \in {afterSearch(rbook, rstrategy, reply)} :
           /\ rreply' = reply
           /\ rpc' = st.pc
           /\ rstrategy' = st.strategy
           /\ rresult' = st.result
           /\ raccepted' = IF st.rank > 0
                            THEN [strategy |-> rstrategy, rank |-> st.rank]
                            ELSE NotAccepted
           /\ rsearches' = IF st.pc = "searching"
                            THEN Append(rsearches, SearchOf(rbook, st.strategy))
                            ELSE rsearches
  /\ UNCHANGED <<rbook, tileVars, dedupVars, scanVars, authorVars, lookupVars,
                 fanInVars>>

NextResolve == ResolveCall \/ ResolveSearchReturns

SpecResolve == InitResolve /\ [][NextResolve]_vars

\* ------------------------------------------------------------------------
\* POST /api/lookup
\* ------------------------------------------------------------------------

\* The most records a lookup request carries in the model.
MaxLookupBooks == 2

LookupBooks == {BookDune, BookIt, BookNoTitle}

LookupLists == SeqUpTo(LookupBooks, MaxLookupBooks)

\* What the service answers to the searches of a lookup request.
LookupReplies ==
  {SearchReply("fetch failed", <<>>), SearchReply("not ok", <<>>),
   SearchReply("ok", <<>>), SearchReply("ok", <<DocDune>>),
   SearchReply("ok", <<DocEmma, DocBare>>)}

LookupResponse(status, list) == [status |-> status, books |-> list]

\* The result slot of a lookupOneBook call in state st.
slotOf(st) ==
  CASE st.pc = "done" -> st.result
    [] st.pc = "rejected" -> RejectedRecord
    [] st.pc = "searching" -> NoRecord

\* The indices of 1..n whose call has ended in the slots, in rising order.
RECURSIVE settledUpTo(_, _)
settledUpTo(slots, n) ==
  IF n = 0 THEN <<>>
  ELSE IF slots[n] # NoRecord
       THEN Append(settledUpTo(slots, n - 1), n)
       ELSE settledUpTo(slots, n - 1)

\* A request whose books is not an array is answered with status 400.
LookupBadRequest ==
  /\ lpc = "idle"
  /\ lbody' = NotAnArray
  /\ lresponses' = <<LookupResponse(400, <<>>)>>
  /\ lpc' = "responded"
  /\ UNCHANGED <<lstrategy, lresults, lorder, tileVars, dedupVars, scanVars,
                 authorVars, resolveVars, fanInVars>>

\* A request with a list of records arrives: books.map(lookupOneBook) runs
\* every call to its first search, and the handler waits for Promise.all.
LookupReceive ==
  /\ lpc = "idle"
  /\ \E list \in LookupLists :
       LET started == [i \in 1..Len(list) |-> enterLoop(list[i], 0)]
           slots   == [i \in 1..Len(list) |-> slotOf(started[i])]
       IN  /\ lbody' = ArrayBody(list)
           /\ lstrategy' = [i \in 1..Len(list) |-> started[i].strategy]
           /\ lresults' = slots
           /\ lorder' = settledUpTo(slots, Len(list))
  /\ lpc' = "resolving"
  /\ UNCHANGED <<lresponses, tileVars, dedupVars, scanVars, authorVars,
                 resolveVars, fanInVars>>

\* The search record i waits for returns, whether or not the request has
\* been answered meanwhile.
LookupSearchReturns ==
  /\ lpc \in {"resolving", "responded"}
  /\ \E i \in 1..Len(lbody.books) : \E reply \in LookupReplies :
       /\ lresults[i] = NoRecord
       /\ \E st \in {afterSearch(lbody.books[i], lstrategy[i], reply)} :
            /\ lstrategy' = [lstrategy EXCEPT ![i] = st.strategy]
            /\ lresults' = [lresults EXCEPT ![i] = slotOf(st)]
            /\ lorder' = IF st.pc = "searching" THEN lorder
                         ELSE Append(lorder, i)
  /\ UNCHANGED <<lbody, lresponses, lpc, tileVars, dedupVars, scanVars,
                 authorVars, resolveVars, fanInVars>>

\* Promise.all is fulfilled: every call has returned a record.
allResolved ==
  \A i \in 1..Len(lbody.books) : lresults[i] \notin {NoRecord, RejectedRecord}

\* res.json({ books: results })
LookupRespond ==
  /\ lpc = "resolving"
  /\ allResolved
  /\ lresponses' = Append(lresponses, LookupResponse(200, lresults))
  /\ lpc' = "responded"
  /\ UNCHANGED <<lbody, lstrategy, lresults, lorder, tileVars, dedupVars,
                 scanVars, authorVars, resolveVars, fanInVars>>

\* Promise.all is rejected as soon as one call has thrown; the handler's catch
\* answers with status 500.
LookupFails ==
  /\ lpc = "resolving"
  /\ \E i \in 1..Len(lbody.books) : lresults[i] = RejectedRecord
  /\ lresponses' = Append(lresponses, LookupResponse(500, <<>>))
  /\ lpc' = "responded"
  /\ UNCHANGED <<lbody, lstrategy, lresults, lorder, tileVars, dedupVars,
                 scanVars, authorVars, resolveVars, fanInVars>>

InitLookup ==
  /\ TileIdle /\ DedupIdle /\ ScanIdle /\ AuthorsIdle /\ ResolveIdle
  /\ LookupIdle /\ FanInIdle

NextLookup ==
  \/ LookupBadRequest
  \/ LookupReceive
  \/ LookupSearchReturns
  \/ LookupRespond
  \/ LookupFails

SpecLookup == InitLookup /\ [][NextLookup]_vars

\* ------------------------------------------------------------------------
\* POST /api/scan
\* ------------------------------------------------------------------------

\* A parsed response that is an array, and one that is any other JSON value.
\* Array.prototype.flat() spreads the first and keeps the second as one
\* element, so both are held as the elements they contribute.
ArrayOf(items) == [isArray |-> TRUE, items |-> items]

NonArray(v) == [isArray |-> FALSE, items |-> <<v>>]

\* No value: the call threw, or has not returned.
NoResult == [isArray |-> FALSE, items |-> <<>>]

\* What a call to the model ends with: a rejected request, or a completion
\* whose content is JSON, JSON inside a ``` fence, or text that is not JSON.
ServiceError(none) == [error |-> TRUE, text |-> "none", value |-> none]

Reply(text, v) == [error |-> FALSE, text |-> text, value |-> v]

\* parseGptJson(raw): the fence, if any, is stripped and the text is parsed;
\* JSON.parse throws on text that is not JSON.
parseGptJson(raw) == [threw |-> raw.text \notin {"json", "fenced json"},
                      value |-> raw.value]

\* An object that has none of a detection's fields, such as {"books": []}.
ObjectValue ==
  [kind |-> "object", title |-> <<>>, author |-> <<>>, confidence |-> "",
   corrected |-> FALSE]

\* A JSON number returned where the overview object is expected.
NumberOverview == [kind |-> "number", count |-> 0, shelves |-> 0]

\* The most elements in one tile's array.
MaxPerTile == 2

\* The most elements in the array the verify pass returns.
MaxCleaned == 2

\* An image below the tiling threshold and one above it.
ScanImages == {<<800, 600>>, <<1200, 800>>}

\* Overviews that keep the 1200 x 800 image at two tiles and at three.
ScanOverviews == {OverviewOf(12, 1), OverviewOf(25, 1)}

OverviewReplies ==
  {ServiceError(NoOverview), Reply("prose", NoOverview), Reply("json", NoOverview),
   Reply("json", NumberOverview)}
    \cup {Reply("json", ov) : ov \in ScanOverviews}
    \cup {Reply("fenced json", OverviewOf(12, 1))}

\* The elements a tile's array may hold: a clear detection, a second spelling
\* of its title with no author read, and null.
ScanElements ==
  {Detection(<<"D","u">>, <<"F","H">>, "high"),
   Detection(<<"d","u">>, <<>>, "low"),
   NullValue}

IdentifyReplies ==
  {ServiceError(NoResult), Reply("prose", NoResult), Reply("fenced json", ArrayOf(<<>>))}
    \cup {Reply("json", ArrayOf(items)) : items \in SeqUpTo(ScanElements, MaxPerTile)}
    \cup {Reply("json", NonArray(v)) : v \in {ObjectValue, NumberValue, NullValue}}

\* The elements the verify pass may return: a corrected entry, an entry whose
\* title it emptied, and null.
VerifyElements ==
  {[Detection(<<"D","u">>, <<"F","H">>, "high") EXCEPT !.corrected = TRUE],
   Detection(<<>>, <<"F","H">>, "high"),
   NullValue}

VerifyReplies ==
  {ServiceError(NoResult), Reply("prose", NoResult), Reply("json", NonArray(ObjectValue))}
    \cup {Reply("json", ArrayOf(items)) : items \in SeqUpTo(VerifyElements, MaxCleaned)}

ErrorResponse(status, cause) ==
  [kind |-> "error", status |-> status, cause |-> cause,
   books |-> <<>>, overview |-> NoOverview]

\* res.json({ books, overview })
ScanResponse(bs, ov) ==
  [kind |-> "books", status |-> 200, cause |-> "none",
   books |-> bs, overview |-> ov]

\* The handler's catch block: one error response, and the handler ends.
scanCatch(cause) ==
  /\ responses' = Append(responses, ErrorResponse(500, cause))
  /\ pc' = "done"

\* The upload middleware rejects the upload (too large, or malformed).
UploadRejected ==
  /\ pc = "idle"
  /\ \E status \in {400, 413} :
       responses' = Append(responses, ErrorResponse(status, "upload"))
  /\ pc' = "done"
  /\ UNCHANGED <<fileOnDisk, imageW, imageH, overview, overviewOutcome,
                 overviewCalls, tiles, tilePromises, tileResults, identifyCalls,
                 allBooks, dedupedBooks, verifyOutcome, verifyCalls, books,
                 stages, tileVars, dedupVars, resolverVars, fanInVars>>

\* The request carries no photo.
ReceiveWithoutPhoto ==
  /\ pc = "idle"
  /\ responses' = Append(responses, ErrorResponse(400, "no image"))
  /\ pc' = "done"
  /\ UNCHANGED <<fileOnDisk, imageW, imageH, overview, overviewOutcome,
                 overviewCalls, tiles, tilePromises, tileResults, identifyCalls,
                 allBooks, dedupedBooks, verifyOutcome, verifyCalls, books,
                 stages, tileVars, dedupVars, resolverVars, fanInVars>>

\* The photo is stored and read, and pass 1 is requested.
ReceivePhoto ==
  /\ pc = "idle"
  /\ \E size \in ScanImages : imageW' = size[1] /\ imageH' = size[2]
  /\ fileOnDisk' = TRUE
  /\ overviewCalls' = overviewCalls + 1
  /\ stages' = Append(stages, "overview")
  /\ pc' = "overview"
  /\ UNCHANGED <<overview, overviewOutcome, tiles, tilePromises, tileResults,
                 identifyCalls, allBooks, dedupedBooks, verifyOutcome,
                 verifyCalls, books, responses, tileVars, dedupVars, resolverVars,
                 fanInVars>>

\* OverviewReturns with the try around countBooks lost: a failed pass 1 ends
\* the request.
OverviewReturnsUncaught ==
  /\ pc = "overview"
  /\ \E reply \in OverviewReplies :
       LET parsed == parseGptJson(reply)
       IN  IF reply.error \/ parsed.threw
           THEN /\ overviewOutcome' = "failed"
                /\ scanCatch("overview")
                /\ UNCHANGED <<overview, stages>>
           ELSE /\ overview' = parsed.value
                /\ overviewOutcome' = "parsed"
                /\ stages' = Append(stages, "partition")
                /\ pc' = "partition"
                /\ UNCHANGED responses
  /\ UNCHANGED <<fileOnDisk, imageW, imageH, overviewCalls, tiles, tilePromises,
                 tileResults, identifyCalls, allBooks, dedupedBooks,
                 verifyOutcome, verifyCalls, books, tileVars, dedupVars, resolverVars,
                 fanInVars>>

\* Pass 1 ends: the overview is the parsed response, or stays null when the
\* call or the parse threw; tileImage is called next.
OverviewReturns ==
  /\ pc = "overview"
  /\ \E reply \in OverviewReplies :
       LET parsed == parseGptJson(reply)
       IN  IF reply.error \/ parsed.threw
           THEN /\ overview' = NoOverview
                /\ overviewOutcome' = "failed"
           ELSE /\ overview' = parsed.value
                /\ overviewOutcome' = "parsed"
  /\ stages' = Append(stages, "partition")
  /\ pc' = "partition"
  /\ UNCHANGED <<fileOnDisk, imageW, imageH, overviewCalls, tiles, tilePromises,
                 tileResults, identifyCalls, allBooks, dedupedBooks,
                 verifyOutcome, verifyCalls, books, responses, tileVars,
                 dedupVars, resolverVars, fanInVars>>

\* sharp extracts a region that is a non-empty rectangle inside the image.
extractable(r, w, h) ==
  /\ r.left >= 0 /\ r.top >= 0 /\ r.width >= 1 /\ r.height >= 1
  /\ r.left + r.width <= w /\ r.top + r.height <= h

\* tileImage returns the tiles.
TileImageReturns ==
  /\ pc = "partition"
  /\ LET regions == tileImage(imageW, imageH, overview)
     IN  /\ \A k \in 1..Len(regions) : extractable(regions[k], imageW, imageH)
         /\ tiles' = regions
  /\ pc' = "tiled"
  /\ UNCHANGED <<fileOnDisk, imageW, imageH, overview, overviewOutcome,
                 overviewCalls, tilePromises, tileResults, identifyCalls,
                 allBooks, dedupedBooks, verifyOutcome, verifyCalls, books,
                 responses, stages, tileVars, dedupVars, resolverVars,
                 fanInVars>>

\* tileImage throws (sharp cannot read the image, or cannot extract a region).
TileImageThrows ==
  /\ pc = "partition"
  /\ scanCatch("tile")
  /\ UNCHANGED <<fileOnDisk, imageW, imageH, overview, overviewOutcome,
                 overviewCalls, tiles, tilePromises, tileResults, identifyCalls,
                 allBooks, dedupedBooks, verifyOutcome, verifyCalls, books,
                 stages, tileVars, dedupVars, resolverVars, fanInVars>>

\* LaunchIdentify sending one request for the whole image, whatever the
\* number of tiles.
LaunchIdentifyOneRequest ==
  /\ pc = "tiled"
  /\ tilePromises' = [i \in 1..Len(tiles) |-> "pending"]
  /\ identifyCalls' = [i \in 1..Len(tiles) |-> IF i = 1 THEN 1 ELSE 0]
  /\ tileResults' = [i \in 1..Len(tiles) |-> NoResult]
  /\ stages' = Append(stages, "identify")
  /\ pc' = "identify"
  /\ UNCHANGED <<fileOnDisk, imageW, imageH, overview, overviewOutcome,
                 overviewCalls, tiles, allBooks, dedupedBooks, verifyOutcome,
                 verifyCalls, books, responses, tileVars, dedupVars, resolverVars,
                 fanInVars>>

\* tiles.map(...): one identifyBooksInTile call is started per tile.
LaunchIdentify ==
  /\ pc = "tiled"
  /\ tilePromises' = [i \in 1..Len(tiles) |-> "pending"]
  /\ identifyCalls' = [i \in 1..Len(tiles) |-> 1]
  /\ tileResults' = [i \in 1..Len(tiles) |-> NoResult]
  /\ stages' = Append(stages, "identify")
  /\ pc' = "identify"
  /\ UNCHANGED <<fileOnDisk, imageW, imageH, overview, overviewOutcome,
                 overviewCalls, tiles, allBooks, dedupedBooks, verifyOutcome,
                 verifyCalls, books, responses, tileVars, dedupVars, resolverVars,
                 fanInVars>>

\* One tile's identifyBooksInTile call ends: its promise is fulfilled with the
\* parsed response, or rejected when the call or the parse threw. A call still
\* pending when the request has failed ends all the same.
IdentifyReturns ==
  /\ pc \in {"identify", "done"}
  /\ \E i \in 1..Len(tilePromises) :
       /\ tilePromises[i] = "pending"
       /\ \E reply \in IdentifyReplies :
            LET parsed == parseGptJson(reply)
            IN  IF reply.error \/ parsed.threw
                THEN /\ tilePromises' = [tilePromises EXCEPT ![i] = "rejected"]
                     /\ UNCHANGED tileResults
                ELSE /\ tilePromises' = [tilePromises EXCEPT ![i] = "fulfilled"]
                     /\ tileResults' = [tileResults EXCEPT ![i] = parsed.value]
  /\ UNCHANGED <<pc, fileOnDisk, imageW, imageH, overview, overviewOutcome,
                 overviewCalls, tiles, identifyCalls, allBooks, dedupedBooks,
                 verifyOutcome, verifyCalls, books, responses, stages,
                 tileVars, dedupVars, resolverVars, fanInVars>>

\* Promise.all rejects as soon as one tile's promise is rejected.
IdentifyRejected ==
  /\ pc = "identify"
  /\ \E i \in 1..Len(tilePromises) : tilePromises[i] = "rejected"
  /\ scanCatch("identify")
  /\ UNCHANGED <<fileOnDisk, imageW, imageH, overview, overviewOutcome,
                 overviewCalls, tiles, tilePromises, tileResults, identifyCalls,
                 allBooks, dedupedBooks, verifyOutcome, verifyCalls, books,
                 stages, tileVars, dedupVars, resolverVars, fanInVars>>

\* flatResults keeping the first tile's elements only.
flatFirstOnly(results) ==
  IF results = <<>> THEN <<>> ELSE Head(results).items

\* tileResults.flat(): the elements of every tile, in tile order.
RECURSIVE flatResults(_)
flatResults(results) ==
  IF results = <<>> THEN <<>>
  ELSE Head(results).items \o flatResults(Tail(results))

\* Promise.all is fulfilled when every tile's promise is.
allFulfilled(promises) == \A i \in 1..Len(promises) : promises[i] = "fulfilled"

\* Dedup waiting only for every promise to settle, as Promise.allSettled
\* would, and going on with the tiles that were identified.
DedupAfterSettled ==
  /\ pc = "identify"
  /\ \A i \in 1..Len(tilePromises) : tilePromises[i] # "pending"
  /\ allBooks' = flatResults(tileResults)
  /\ stages' = Append(stages, "dedup")
  /\ IF dedupThrows(allBooks')
     THEN /\ scanCatch("dedup")
          /\ UNCHANGED dedupedBooks
     ELSE /\ dedupedBooks' = deduplicateBooks(allBooks')
          /\ pc' = "deduped"
          /\ UNCHANGED responses
  /\ UNCHANGED <<fileOnDisk, imageW, imageH, overview, overviewOutcome,
                 overviewCalls, tiles, tilePromises, tileResults, identifyCalls,
                 verifyOutcome, verifyCalls, books, tileVars, dedupVars, resolverVars,
                 fanInVars>>

\* The results are flattened and deduplicated.
Dedup ==
  /\ pc = "identify"
  /\ allFulfilled(tilePromises)
  /\ allBooks' = flatResults(tileResults)
  /\ stages' = Append(stages, "dedup")
  /\ IF dedupThrows(allBooks')
     THEN /\ scanCatch("dedup")
          /\ UNCHANGED dedupedBooks
     ELSE /\ dedupedBooks' = deduplicateBooks(allBooks')
          /\ pc' = "deduped"
          /\ UNCHANGED responses
  /\ UNCHANGED <<fileOnDisk, imageW, imageH, overview, overviewOutcome,
                 overviewCalls, tiles, tilePromises, tileResults, identifyCalls,
                 verifyOutcome, verifyCalls, books, tileVars, dedupVars, resolverVars,
                 fanInVars>>

\* verifyAndCleanBooks is called: an empty list is returned as it is, any
\* other list is sent to the model.
StartVerify ==
  /\ pc = "deduped"
  /\ stages' = Append(stages, "correct")
  /\ IF dedupedBooks = <<>>
     THEN /\ books' = dedupedBooks
          /\ verifyOutcome' = "skipped"
          /\ pc' = "respond"
          /\ UNCHANGED verifyCalls
     ELSE /\ verifyCalls' = verifyCalls + 1
          /\ pc' = "verify"
          /\ UNCHANGED <<books, verifyOutcome>>
  /\ UNCHANGED <<fileOnDisk, imageW, imageH, overview, overviewOutcome,
                 overviewCalls, tiles, tilePromises, tileResults, identifyCalls,
                 allBooks, dedupedBooks, responses, tileVars, dedupVars, resolverVars,
                 fanInVars>>

\* The try block of verifyAndCleanBooks: the parse, or the filter that counts
\* the corrections, throws.
verifyParseThrows(reply) ==
  LET parsed == parseGptJson(reply)
  IN  \/ parsed.threw
      \/ ~parsed.value.isArray
      \/ \E i \in 1..Len(parsed.value.items) : parsed.value.items[i].kind = "null"

\* What verifyAndCleanBooks returns for a completion.
verifyResult(deduped, reply) ==
  IF verifyParseThrows(reply) THEN deduped ELSE parseGptJson(reply).value.items

\* Pass 3 ends. A rejected request is thrown to the handler; otherwise the
\* cleaned list is returned, or the list passed in when the parse threw.
VerifyReturns ==
  /\ pc = "verify"
  /\ \E reply \in VerifyReplies :
       IF reply.error
       THEN /\ verifyOutcome' = "service error"
            /\ scanCatch("verify")
            /\ UNCHANGED books
       ELSE /\ verifyOutcome' =
                 IF verifyParseThrows(reply) THEN "parse failed" ELSE "cleaned"
            /\ books' = verifyResult(dedupedBooks, reply)
            /\ pc' = "respond"
            /\ UNCHANGED responses
  /\ UNCHANGED <<fileOnDisk, imageW, imageH, overview, overviewOutcome,
                 overviewCalls, tiles, tilePromises, tileResults, identifyCalls,
                 allBooks, dedupedBooks, verifyCalls, stages, tileVars,
                 dedupVars, resolverVars, fanInVars>>

\* The uploaded file is removed and the books are sent.
Respond ==
  /\ pc = "respond"
  /\ fileOnDisk' = FALSE
  /\ responses' = Append(responses, ScanResponse(books, overview))
  /\ stages' = Append(stages, "response")
  /\ pc' = "done"
  /\ UNCHANGED <<imageW, imageH, overview, overviewOutcome, overviewCalls,
                 tiles, tilePromises, tileResults, identifyCalls, allBooks,
                 dedupedBooks, verifyOutcome, verifyCalls, books, tileVars,
                 dedupVars, resolverVars, fanInVars>>

Init == ScanIdle /\ TileIdle /\ DedupIdle /\ ResolverIdle /\ FanInIdle

Next ==
  \/ UploadRejected
  \/ ReceiveWithoutPhoto
  \/ ReceivePhoto
  \/ OverviewReturns
  \/ TileImageReturns
  \/ TileImageThrows
  \/ LaunchIdentify
  \/ IdentifyReturns
  \/ IdentifyRejected
  \/ Dedup
  \/ StartVerify
  \/ VerifyReturns
  \/ Respond

Spec == Init /\ [][Next]_vars

\* ------------------------------------------------------------------------
\* The fan-in of pass 2: Promise.all, flat and deduplicateBooks
\* ------------------------------------------------------------------------

\* The most tiles whose calls are awaited in the model (the code has up to 16).
MaxFanInTiles == 3

\* Two spellings of one title read with the same confidence, so that the
\* entry deduplicateBooks keeps depends on which comes first.
SpineDu == Detection(<<"D","u">>, <<"F","H">>, "high")
SpineDuLower == Detection(<<"d","u">>, <<>>, "high")

\* What a tile's call ends with: a rejected request, or an array.
FanInReplies ==
  {ServiceError(NoResult),
   Reply("json", ArrayOf(<<SpineDu>>)),
   Reply("json", ArrayOf(<<SpineDuLower>>)),
   Reply("json", ArrayOf(<<SpineDuLower, SpineDu>>)),
   Reply("json", ArrayOf(<<NullValue>>))}

\* promiseAllValues handing the values over in the order the calls ended.
promiseAllValuesAsCompleted(results, order) ==
  [n \in 1..Len(order) |-> results[order[n]]]

\* The array Promise.all is fulfilled with: the value of each promise at the
\* index of that promise, whatever the order in which they were fulfilled.
promiseAllValues(results, order) == results

\* tiles.map(...) has started one call per tile and the handler awaits
\* Promise.all.
InitFanIn ==
  /\ \E n \in 1..MaxFanInTiles :
       /\ fpromises = [i \in 1..n |-> "pending"]
       /\ fresults = [i \in 1..n |-> NoResult]
  /\ forder = <<>>
  /\ fallBooks = <<>>
  /\ fdeduped = <<>>
  /\ fpc = "identify"
  /\ TileIdle /\ DedupIdle /\ ScanIdle /\ ResolverIdle

\* One tile's call ends, also after the request has failed.
FanInIdentifyReturns ==
  /\ fpc \in {"identify", "failed"}
  /\ \E i \in 1..Len(fpromises) :
       /\ fpromises[i] = "pending"
       /\ forder' = Append(forder, i)
       /\ \E reply \in FanInReplies :
            LET parsed == parseGptJson(reply)
            IN  IF reply.error \/ parsed.threw
                THEN /\ fpromises' = [fpromises EXCEPT ![i] = "rejected"]
                     /\ UNCHANGED fresults
                ELSE /\ fpromises' = [fpromises EXCEPT ![i] = "fulfilled"]
                     /\ fresults' = [fresults EXCEPT ![i] = parsed.value]
  /\ UNCHANGED <<fallBooks, fdeduped, fpc, tileVars, dedupVars, scanVars,
                 resolverVars>>

\* Promise.all rejects as soon as one tile's promise is rejected.
FanInRejected ==
  /\ fpc = "identify"
  /\ \E i \in 1..Len(fpromises) : fpromises[i] = "rejected"
  /\ fpc' = "failed"
  /\ UNCHANGED <<fpromises, fresults, forder, fallBooks, fdeduped, tileVars,
                 dedupVars, scanVars, resolverVars>>

\* Promise.all is fulfilled; its values are flattened and deduplicated.
FanInDedup ==
  /\ fpc = "identify"
  /\ allFulfilled(fpromises)
  /\ fallBooks' = flatResults(promiseAllValues(fresults, forder))
  /\ IF dedupThrows(fallBooks')
     THEN /\ fpc' = "failed"
          /\ UNCHANGED fdeduped
     ELSE /\ fdeduped' = deduplicateBooks(fallBooks')
          /\ fpc' = "deduped"
  /\ UNCHANGED <<fpromises, fresults, forder, tileVars, dedupVars, scanVars,
                 resolverVars>>

NextFanIn == FanInIdentifyReturns \/ FanInRejected \/ FanInDedup

SpecFanIn == InitFanIn /\ [][NextFanIn]_vars

\* ------------------------------------------------------------------------
\* The server handling one request: a scan, or the resolving of one record
\* ------------------------------------------------------------------------

\* A lookup hands a record to lookupOneBook on a server that is not scanning.
ResolveReceive ==
  /\ pc = "idle"
  /\ rpc = "idle"
  /\ rbook' \in ResolveBooks
  /\ rpc' = "input"
  /\ UNCHANGED <<rstrategy, rreply, rsearches, raccepted, rresult, tileVars,
                 dedupVars, scanVars, authorVars, lookupVars, fanInVars>>

\* A step of the scan request, on a server that resolves no record.
ScanStep == rpc = "idle" /\ Next

NextServer == ScanStep \/ ResolveReceive \/ ResolveCall \/ ResolveSearchReturns

SpecServer == Init /\ [][NextServer]_vars

\* ------------------------------------------------------------------------
\* Properties of tileImage
\* ------------------------------------------------------------------------

\* Pixel (x, y) lies inside region r.
InRegion(r, x, y) ==
  /\ r.left <= x /\ x < r.left + r.width
  /\ r.top <= y /\ y < r.top + r.height

\* C1 (as claimed): every pixel of the image lies inside at least one of the
\* regions tileImage computed, whatever the size and the overview.
C1_PartitionComplete ==
  tpc = "tiled" =>
    \A x \in 0..(tw - 1) : \A y \in 0..(th - 1) :
      \E k \in 1..Len(tregions) : InRegion(tregions[k], x, y)

\* C19: tileImage returns exactly one region, labelled "full image" and
\* covering the whole image, exactly when both sides are below 1200 px,
\* whatever the overview; with a side of 1200 px or more it returns a grid of
\* at least two regions, each labelled with its row and column.
C19_SmallImagePath ==
  tpc = "tiled" =>
    LET single == /\ Len(tregions) = 1
                  /\ tregions[1].label.kind = "full image"
                  /\ tregions[1].left = 0 /\ tregions[1].top = 0
                  /\ tregions[1].width = tw /\ tregions[1].height = th
        grid   == /\ Len(tregions) >= 2
                  /\ \A k \in 1..Len(tregions) : tregions[k].label.kind = "cell"
    IN  /\ (tw < 1200 /\ th < 1200) <=> single
        /\ (tw >= 1200 \/ th >= 1200) <=> grid

\* An 800 x 600 image with an overview that asks for the finest grid, tiled as
\* one region.
C19_Witness ==
  /\ tpc = "tiled"
  /\ tw = 800 /\ th = 600
  /\ toverview = OverviewOf(40, 5)
  /\ Len(tregions) = 1
  /\ tregions[1].label.kind = "full image"

\* The grid tileImage chose, read from the label of the last region, and the
\* region of a cell (rows and columns counted from 1, as in the labels).
TiledCols == tregions[Len(tregions)].label.col
TiledRows == tregions[Len(tregions)].label.row
RegionAt(row, col) == tregions[(row - 1) * TiledCols + col]
RightOf(r) == r.left + r.width
BottomOf(r) == r.top + r.height
IsGrid == tpc = "tiled" /\ tregions[1].label.kind = "cell"

\* The part of the image in grid cell number k (of cells `cell` wide) before
\* any overlap is added, along a side of `side` pixels.
CellExtent(side, cell, k) == Min(side, k * cell) - Min(side, (k - 1) * cell)

\* n is 15% of cell, give or take the rounding to a whole pixel.
IsFifteenPercent(n, cell) ==
  100 * n - 15 * cell < 100 /\ 15 * cell - 100 * n < 100

\* No region reaches outside the image, and the regions of the first column and
\* the first row start on the image's edge.
RegionsWithinImage ==
  \A k \in 1..Len(tregions) :
    LET r == tregions[k]
    IN  /\ r.left >= 0 /\ r.top >= 0
        /\ RightOf(r) <= tw /\ BottomOf(r) <= th
        /\ r.label.col = 1 => r.left = 0
        /\ r.label.row = 1 => r.top = 0

\* C20 (as claimed): in a grid, two horizontally adjacent regions of a row
\* share a strip as wide as 15% of the smaller of their two cells, two
\* vertically adjacent regions of a column share a strip as high as 15% of the
\* smaller of their two cells, and no region is extended beyond the image.
C20_OverlapIsFifteenPercent ==
  IsGrid =>
    LET cellW == RoundDiv(tw, TiledCols)
        cellH == RoundDiv(th, TiledRows)
    IN  /\ \A row \in 1..TiledRows : \A col \in 1..(TiledCols - 1) :
             IsFifteenPercent(
               RightOf(RegionAt(row, col)) - RegionAt(row, col + 1).left,
               Min(CellExtent(tw, cellW, col), CellExtent(tw, cellW, col + 1)))
        /\ \A row \in 1..(TiledRows - 1) : \A col \in 1..TiledCols :
             IsFifteenPercent(
               BottomOf(RegionAt(row, col)) - RegionAt(row + 1, col).top,
               Min(CellExtent(th, cellH, row), CellExtent(th, cellH, row + 1)))
        /\ RegionsWithinImage

\* C20 (amended): in a grid with cells of cellW x cellH pixels, every region
\* reaches round(15% of cellW) past each grid line it has on its left or right
\* and round(15% of cellH) past each grid line it has above or below, cut off
\* at the image's edge; so two adjacent regions share a strip of twice that
\* padding (about 30% of the cell) whenever both padded edges lie inside the
\* image, and no region is extended beyond the image.
C20_OverlapTwicePadding ==
  IsGrid =>
    LET cellW == RoundDiv(tw, TiledCols)
        cellH == RoundDiv(th, TiledRows)
        padW  == RoundDiv(15 * cellW, 100)
        padH  == RoundDiv(15 * cellH, 100)
    IN  /\ \A row \in 1..TiledRows : \A col \in 1..(TiledCols - 1) :
             LET a == RegionAt(row, col)
                 b == RegionAt(row, col + 1)
                 g == col * cellW
             IN  /\ RightOf(a) = Min(tw, g + padW)
                 /\ b.left = Max(0, g - padW)
                 /\ (g + padW <= tw /\ g - padW >= 0)
                      => RightOf(a) - b.left = 2 * padW
        /\ \A row \in 1..(TiledRows - 1) : \A col \in 1..TiledCols :
             LET a == RegionAt(row, col)
                 b == RegionAt(row + 1, col)
                 g == row * cellH
             IN  /\ BottomOf(a) = Min(th, g + padH)
                 /\ b.top = Max(0, g - padH)
                 /\ (g + padH <= th /\ g - padH >= 0)
                      => BottomOf(a) - b.top = 2 * padH
        /\ RegionsWithinImage

\* A 3000 x 7 image on two shelves: a 4 x 2 grid of 750 x 4 cells, where the
\* first two regions of a row share 226 columns and the first two regions of
\* a column share 2 rows.
C20_Witness ==
  /\ IsGrid
  /\ tw = 3000 /\ th = 7
  /\ TiledCols = 4 /\ TiledRows = 2
  /\ RightOf(RegionAt(1, 1)) - RegionAt(1, 2).left = 226
  /\ BottomOf(RegionAt(1, 1)) - RegionAt(2, 1).top = 2

\* C21: for an image with a side of 1200 px or more, tileImage returns
\* cols x rows regions, one per cell and row by row, where cols is 4 if
\* count >= 40 or w >= 3000, else 3 if count >= 20 or w >= 2000, else 2, and
\* rows is 4 if shelves >= 4 or h >= 3000, else max(shelves, 2) if
\* shelves >= 2 or h >= 1600, else 1; count is 0 and shelves is 1 when there
\* is no overview.
C21_AdaptiveGridSize ==
  (tpc = "tiled" /\ (tw >= 1200 \/ th >= 1200)) =>
    LET count   == IF toverview = NoOverview THEN 0 ELSE toverview.count
        shelves == IF toverview = NoOverview THEN 1 ELSE toverview.shelves
        cols    == IF count >= 40 \/ tw >= 3000 THEN 4
                   ELSE IF count >= 20 \/ tw >= 2000 THEN 3
                   ELSE 2
        rows    == IF shelves >= 4 \/ th >= 3000 THEN 4
                   ELSE IF shelves >= 2 \/ th >= 1600
                        THEN (IF shelves >= 2 THEN shelves ELSE 2)
                        ELSE 1
    IN  /\ Len(tregions) = cols * rows
        /\ \A row \in 1..rows : \A col \in 1..cols :
             /\ tregions[(row - 1) * cols + col].label.kind = "cell"
             /\ tregions[(row - 1) * cols + col].label.row = row
             /\ tregions[(row - 1) * cols + col].label.col = col

\* A 7 x 1600 image with an overview of 20 books on one shelf, tiled as 3
\* columns (by the count) and 2 rows (by the height).
C21_Witness ==
  /\ tpc = "tiled"
  /\ tw = 7 /\ th = 1600
  /\ toverview = OverviewOf(20, 1)
  /\ Len(tregions) = 6
  /\ tregions[6].label = [kind |-> "cell", row |-> 2, col |-> 3]

\* C29 (as claimed): for every image that takes the grid path and every
\* overview, every region tileImage computed is a non-empty rectangle inside
\* the image: left >= 0, top >= 0, width >= 1, height >= 1,
\* left + width <= w and top + height <= h.
C29_RegionsAreValidRectangles ==
  (IsGrid /\ tw >= 1 /\ th >= 1) =>
    \A k \in 1..Len(tregions) :
      /\ tregions[k].left >= 0 /\ tregions[k].top >= 0
      /\ tregions[k].width >= 1 /\ tregions[k].height >= 1
      /\ tregions[k].left + tregions[k].width <= tw
      /\ tregions[k].top + tregions[k].height <= th

\* The regions of a grid whose sides are at least 7 px are non-empty
\* rectangles inside the image.
LargeGridRegionsAreValid ==
  (IsGrid /\ tw >= 7 /\ th >= 7) =>
    \A k \in 1..Len(tregions) :
      /\ tregions[k].width >= 1 /\ tregions[k].height >= 1
      /\ RegionsWithinImage

\* ------------------------------------------------------------------------
\* Properties of deduplicateBooks
\* ------------------------------------------------------------------------

SameKey(a, b) == normalizeTitle(a.title) = normalizeTitle(b.title)

\* C8: every entry deduplicateBooks returns is one of the input entries, and
\* its confidence rank is at least the rank of every input entry with the
\* same normalized title, whatever the input order.
C8_DedupKeepsMaxRank ==
  dpc \in {"once", "twice"} =>
    \A i \in 1..Len(dout) :
      /\ \E j \in 1..Len(dbooks) : dbooks[j] = dout[i]
      /\ \A j \in 1..Len(dbooks) :
           SameKey(dbooks[j], dout[i]) =>
             confRank(dout[i].confidence) >= confRank(dbooks[j].confidence)

\* C8 witness: a "low" detection followed by a "high" one of the same title was
\* deduplicated, and the "high" one is the entry returned.
C8_Witness ==
  /\ dpc = "once"
  /\ Len(dbooks) = 2
  /\ dbooks[1].confidence = "low"
  /\ dbooks[2].confidence = "high"
  /\ dbooks[1].title # dbooks[2].title
  /\ SameKey(dbooks[1], dbooks[2])
  /\ dout = <<dbooks[2]>>

\* C9: deduplicating the output of deduplicateBooks returns that output, the
\* same entries in the same order.
C9_DedupIdempotent == dpc = "twice" => dagain = dout

\* C9 witness: a list with colliding titles was deduplicated twice and the
\* output holds two entries.
C9_Witness ==
  /\ dpc = "twice"
  /\ Len(dbooks) = 3
  /\ Len(dout) = 2
  /\ dout[1].confidence # dbooks[1].confidence

\* C10: the output holds exactly one entry for each non-empty normalized title
\* of the input, no entry for any other title, no two entries with the same
\* normalized title, and no entry whose normalized title is empty.
C10_DedupKeyUnique ==
  dpc \in {"once", "twice"} =>
    /\ \A j \in 1..Len(dbooks) :
         normalizeTitle(dbooks[j].title) # <<>> =>
           Cardinality({i \in 1..Len(dout) : SameKey(dout[i], dbooks[j])}) = 1
    /\ \A i \in 1..Len(dout) :
         /\ normalizeTitle(dout[i].title) # <<>>
         /\ \E j \in 1..Len(dbooks) : SameKey(dbooks[j], dout[i])
         /\ \A k \in 1..Len(dout) : SameKey(dout[i], dout[k]) => i = k

\* C10 witness: an input with an empty normalized title, two spellings of one
\* title and a third title was deduplicated to two entries.
C10_Witness ==
  /\ dpc = "once"
  /\ Len(dbooks) = 3
  /\ \E j \in 1..3 : normalizeTitle(dbooks[j].title) = <<>>
  /\ \E j, k \in 1..3 : j # k /\ ~SameKey(dbooks[j], dbooks[k])
                        /\ normalizeTitle(dbooks[j].title) # <<>>
                        /\ normalizeTitle(dbooks[k].title) # <<>>
  /\ Len(dout) = 2

\* The index of the first input entry that has the key of entry e and the
\* highest confidence rank among the input entries with that key.
FirstOfMaxRank(e) ==
  LET group == {j \in 1..Len(dbooks) : SameKey(dbooks[j], e)}
      best  == {j \in group :
                  \A k \in group :
                    confRank(dbooks[j].confidence) >= confRank(dbooks[k].confidence)}
  IN  CHOOSE j \in best : \A k \in best : j <= k

\* C26: of the detections that share a normalized title, deduplicateBooks
\* keeps the first one in the input list among those of the highest
\* confidence rank: a later detection of the same rank does not replace it.
C26_DedupTieKeepsFirst ==
  dpc \in {"once", "twice"} =>
    \A i \in 1..Len(dout) : dout[i] = dbooks[FirstOfMaxRank(dout[i])]

\* A "low" detection followed by two "high" ones of the same normalized title,
\* differently spelled, was deduplicated: the first "high" one is kept.
C26_Witness ==
  /\ dpc = "once"
  /\ Len(dbooks) = 3
  /\ dbooks[1].confidence = "low"
  /\ dbooks[2].confidence = "high"
  /\ dbooks[3].confidence = "high"
  /\ SameKey(dbooks[1], dbooks[2]) /\ SameKey(dbooks[2], dbooks[3])
  /\ dbooks[2] # dbooks[3]
  /\ dout = <<dbooks[2]>>

\* ------------------------------------------------------------------------
\* Properties of POST /api/scan
\* ------------------------------------------------------------------------

StageOrder == <<"overview", "partition", "identify", "dedup", "correct", "response">>

IsPrefix(s, t) == Len(s) <= Len(t) /\ \A i \in 1..Len(s) : s[i] = t[i]

StageStarted(name) == \E i \in 1..Len(stages) : stages[i] = name

\* The number of elements the tiles before tile i returned.
RECURSIVE ElementsBefore(_)
ElementsBefore(i) ==
  IF i = 1 THEN 0 ELSE ElementsBefore(i - 1) + Len(tileResults[i - 1].items)

\* C2 (as claimed): a scan answers with books only if every tile's
\* identification call returned a JSON array; output that is not JSON, or
\* JSON that is not an array, makes the request fail.
C2_MalformedOutputIsFatal ==
  \A k \in 1..Len(responses) :
    responses[k].kind = "books" =>
      \A i \in 1..Len(tileResults) :
        tilePromises[i] = "fulfilled" /\ tileResults[i].isArray

\* C3 (as claimed): when the verify pass failed, by its request being rejected
\* or by its response not parsing as a list, the request still ends with the
\* books response, holding the deduplicated list.
C3_VerifyFailureNeverFatal ==
  (pc = "done" /\ verifyOutcome \in {"service error", "parse failed"}) =>
    responses = <<ScanResponse(dedupedBooks, overview)>>

\* C4: when pass 1 failed (its request was rejected or its response did not
\* parse), the overview is null, the tiles are those computed for no overview,
\* no error response is caused by the overview, and a books response carries a
\* null overview after all six stages ran.
C4_OverviewFailureNotFatal ==
  overviewOutcome = "failed" =>
    /\ overview = NoOverview
    /\ pc # "overview"
    /\ tiles # <<>> => tiles = tileImage(imageW, imageH, NoOverview)
    /\ \A k \in 1..Len(responses) :
         /\ responses[k].cause # "overview"
         /\ responses[k].kind = "books" =>
              responses[k].overview = NoOverview /\ stages = StageOrder

\* C4 witness: pass 1 failed and the request ended with books found in the
\* two tiles of the default grid.
C4_Witness ==
  /\ overviewOutcome = "failed"
  /\ pc = "done"
  /\ Len(tiles) = 2
  /\ Len(responses) = 1
  /\ responses[1].kind = "books"
  /\ responses[1].books # <<>>

\* C5: the stages start in the order overview, partition, identify, dedup,
\* correct, response; once identification started, exactly one call was made
\* per tile; deduplication starts only when every tile's call is fulfilled,
\* and neither it nor the verify pass starts when a tile's call was rejected.
C5_StagesInOrder ==
  /\ IsPrefix(stages, StageOrder)
  /\ IF StageStarted("identify")
     THEN /\ Len(tiles) >= 1
          /\ Len(identifyCalls) = Len(tiles)
          /\ \A i \in 1..Len(tiles) : identifyCalls[i] = 1
     ELSE identifyCalls = <<>>
  /\ StageStarted("dedup") =>
       \A i \in 1..Len(tiles) : tilePromises[i] = "fulfilled"
  /\ (\E i \in 1..Len(tilePromises) : tilePromises[i] = "rejected") =>
       ~StageStarted("dedup") /\ ~StageStarted("correct")

\* C5 witness: a scan of three tiles went through all six stages, with a call
\* to the verify pass.
C5_Witness ==
  /\ pc = "done"
  /\ stages = StageOrder
  /\ Len(tiles) = 3
  /\ verifyCalls = 1

C7_NoEmptyTitleOrAuthor ==
  \A k \in 1..Len(responses) :
    responses[k].kind = "books" =>
      \A i \in 1..Len(responses[k].books) :
        /\ responses[k].books[i].title # <<>>
        /\ responses[k].books[i].author # <<>>

\* The sum of a sequence of numbers.
RECURSIVE SumSeq(_)
SumSeq(ns) == IF ns = <<>> THEN 0 ELSE Head(ns) + SumSeq(Tail(ns))

\* The requests that carry an image to the model: the overview call and the
\* identification calls (the verify call carries text only).
VisionRequests == overviewCalls + SumSeq(identifyCalls)

\* A photo was received: the handler went past the test of req.file.
PhotoReceived == stages # <<>>

C28_UploadRemovedAfterRequest ==
  pc = "done" => ~fileOnDisk

\* The uploaded file is removed when the books are sent: a request that ended
\* with a books response has left no file.
UploadRemovedAfterBooks ==
  (pc = "done" /\ responses[1].kind = "books") => ~fileOnDisk

\* C30: the flattened list handed to deduplicateBooks holds the detections of
\* the tiles in tile order and, within a tile, in the order returned, and the
\* deduplicated list is deduplicateBooks of that list: both are determined by
\* the tile order and each tile's detections, whatever the order in which the
\* concurrent calls ended.
C30_DeterministicFanIn ==
  fpc = "deduped" =>
    /\ fallBooks = flatResults(fresults)
    /\ fdeduped = deduplicateBooks(flatResults(fresults))

\* The call of tile 2 ended before the call of tile 1, each with its own
\* spelling of one title at the same confidence: the entry kept is tile 1's.
C30_Witness ==
  /\ fpc = "deduped"
  /\ forder = <<2, 1>>
  /\ fresults[1].items = <<SpineDu>>
  /\ fresults[2].items = <<SpineDuLower>>
  /\ fallBooks = <<SpineDu, SpineDuLower>>
  /\ fdeduped = <<SpineDu>>

\* ------------------------------------------------------------------------
\* Properties of the external calls
\* ------------------------------------------------------------------------

\* The last reply of the search service was a failure.
SearchFailed == rreply.kind \in FailedReplyKinds

\* C27: no external call is repeated. A scan request that received a photo
\* makes exactly one overview call; once identification has started it has
\* made exactly one identification call per tile; it makes at most one
\* correction call, and none of these is made again after a failure.
\* Resolving one record issues at most six searches and at most one per
\* strategy, also after failed searches.
C27_NoRetries ==
  /\ overviewCalls = (IF PhotoReceived THEN 1 ELSE 0)
  /\ overviewOutcome = "failed" => overviewCalls = 1
  /\ StageStarted("identify") =>
       /\ Len(identifyCalls) = Len(tiles)
       /\ \A i \in 1..Len(tiles) : identifyCalls[i] = 1
  /\ ~StageStarted("identify") => identifyCalls = <<>>
  /\ verifyCalls <= 1
  /\ verifyOutcome \in {"service error", "parse failed", "cleaned"}
       => verifyCalls = 1
  /\ Len(rsearches) <= 6
  /\ \A n, m \in 1..Len(rsearches) :
       rsearches[n].strategy = rsearches[m].strategy => n = m

\* A record was returned after six searches, one per strategy, the last of
\* which failed.
C27_Witness ==
  /\ rpc = "done"
  /\ Len(rsearches) = 6
  /\ SearchFailed

\* ------------------------------------------------------------------------
\* Properties of authorsMatch
\* ------------------------------------------------------------------------

\* C18: authorsMatch(a, a) is true for every author name a, and
\* authorsMatch("Unknown", c) is true for every candidate c.
C18_AuthorsMatchSameAndUnknown ==
  apc = "matched" =>
    /\ aexpected = acandidate => aresult
    /\ aexpected = Unknown => aresult

\* authorsMatch("Stephen King", "Stephen King") has returned true.
C18_Witness ==
  /\ apc = "matched"
  /\ aexpected = <<"S","t","e","p","h","e","n"," ","K","i","n","g">>
  /\ acandidate = aexpected
  /\ aresult

\* C24: for an expected author that is present and not "Unknown" and a
\* candidate author that is present, authorsMatch returns true exactly when,
\* both names being normalized to their lower-case alphabetic words of 3 or
\* more characters, the last words of the two names are equal or at least half
\* of the expected name's words are part of, or contain, some candidate word.
C24_AuthorMatchingRule ==
  (apc = "matched" /\ aexpected # <<>> /\ aexpected # Unknown
     /\ acandidate # <<>>) =>
    LET ews       == authorWords(aexpected)
        cws       == authorWords(acandidate)
        lastEqual == /\ ews # <<>> /\ cws # <<>>
                     /\ ews[Len(ews)] = cws[Len(cws)]
        found     == {k \in 1..Len(ews) :
                        \E j \in 1..Len(cws) :
                          includes(cws[j], ews[k]) \/ includes(ews[k], cws[j])}
    IN  aresult <=> (lastEqual \/ 2 * Cardinality(found) >= Len(ews))

\* authorsMatch("Stephen King", "Kingsley") has returned true: the last words
\* differ, and one of the two expected words is part of the candidate's word.
C24_Witness ==
  /\ apc = "matched"
  /\ aexpected = <<"S","t","e","p","h","e","n"," ","K","i","n","g">>
  /\ acandidate = <<"K","i","n","g","s","l","e","y">>
  /\ aresult

\* ------------------------------------------------------------------------
\* Properties of lookupOneBook
\* ------------------------------------------------------------------------

\* lookupOneBook has returned the result made of an accepted document.
Matched == rpc = "done" /\ raccepted # NotAccepted

\* The document lookupOneBook accepted, once Matched.
AcceptedDoc == searchResult(rreply)[raccepted.rank]

\* The searches were issued for strategies of rising index.
SearchesInOrder ==
  \A n \in 1..Len(rsearches) :
    /\ rsearches[n].strategy \in 1..6
    /\ n > 1 => rsearches[n - 1].strategy < rsearches[n].strategy

\* The accepted document is the first one the latest search returned that
\* passes the filters of that search's strategy, and the result is made of it.
AcceptedIsFirstOfLatestSearch ==
  Matched =>
    LET docs == searchResult(rreply)
        k    == rsearches[Len(rsearches)].strategy
    IN  /\ raccepted.strategy = k
        /\ raccepted.rank \in 1..Len(docs)
        /\ acceptsTable[rbook][k][docs[raccepted.rank]]
        /\ \A q \in 1..(raccepted.rank - 1) : ~acceptsTable[rbook][k][docs[q]]
        /\ rresult = docToResult(docs[raccepted.rank], rbook)

\* A step that ends the wait for a search without accepting a document: the
\* search returned no document that passes the strategy's filters.
MovesOnOnlyWithoutCandidate ==
  (rpc = "searching" /\ raccepted' = NotAccepted /\ rreply' # rreply) =>
    \A r \in 1..Len(searchResult(rreply')) :
      ~acceptsTable[rbook][rstrategy][searchResult(rreply')[r]]

\* Once lookupOneBook has returned or thrown, no search is issued.
NoSearchAfterReturn ==
  rpc \in {"done", "rejected"} => rsearches' = rsearches

\* C13: the searches of a record are issued for strategies of rising index;
\* a later strategy is searched only after the earlier search returned no
\* document that passes its filters, the match returned is the first such
\* document of the search that found one, and after a result has been
\* returned no search is issued.
C13_CascadeOrderFirstAccepted ==
  /\ [](SearchesInOrder /\ AcceptedIsFirstOfLatestSearch)
  /\ [][MovesOnOnlyWithoutCandidate]_vars
  /\ [][NoSearchAfterReturn]_vars

\* "Dune" by Frank Herbert matched by strategy 5 with the second document its
\* search returned, after the searches of strategies 1 to 4.
C13_Witness ==
  /\ Matched
  /\ rbook = BookDune
  /\ raccepted = [strategy |-> 5, rank |-> 2]
  /\ Len(rsearches) = 5

\* C14: no accepted document has a title that starts, in any case, with
\* "summary", "review" or "analysis of" unless the record's own title starts
\* with that word ("summary", "review", "analysis").
C14_NoKnockoffAccepted ==
  Matched =>
    LET rt == toLowerCase(AcceptedDoc.title)
        qt == toLowerCase(titleOf(rbook))
    IN  /\ startsWith(rt, Summary) => startsWith(qt, Summary)
        /\ startsWith(rt, Review) => startsWith(qt, Review)
        /\ startsWith(rt, AnalysisOf) => startsWith(qt, Analysis)

\* The document "Summary of Dune" accepted for the record titled "Summary of
\* Dune".
C14_Witness ==
  /\ Matched
  /\ rbook = BookSummaryOfDune
  /\ AcceptedDoc = DocSummaryOfDune

\* Some word of the query (lower-case alphanumeric, longer than 2) is part of
\* or contains some such word of the title.
WordsOverlap(query, title) ==
  \E qw \in {titleWords(query)[i] : i \in 1..Len(titleWords(query))} :
    \E dw \in {titleWords(title)[j] : j \in 1..Len(titleWords(title))} :
      includes(dw, qw) \/ includes(qw, dw)

\* C15 (as claimed): in every strategy, every accepted document has a title
\* with a word that overlaps a word of the strategy's query.
C15_OverlapAlwaysRequired ==
  Matched =>
    WordsOverlap(strategyQuery(rbook, raccepted.strategy), AcceptedDoc.title)

\* C15 (amended): in every strategy whose query has at least one normalized
\* word of 3 or more characters, every accepted document has a title with a
\* word that overlaps a word of the query; a query without such a word is not
\* filtered by title.
C15_OverlapRequiredWhenQueryHasWords ==
  (Matched /\ titleWords(strategyQuery(rbook, raccepted.strategy)) # <<>>) =>
    WordsOverlap(strategyQuery(rbook, raccepted.strategy), AcceptedDoc.title)

\* "Dune: Messiah" matched by strategy 4, whose query is "Dune", with the
\* document "Dune Messiah".
C15_Witness ==
  /\ Matched
  /\ rbook = BookDuneMessiah
  /\ raccepted.strategy = 4
  /\ AcceptedDoc = DocDuneMessiah

\* The fields of an identified book and the fields the lookup adds.
IdentifiedFields == {"title", "author", "confidence", "corrected"}
EnrichmentFields ==
  {"isbn13", "isbn10", "coverUrl", "publishYear", "publisher", "pages",
   "subjects"}

\* C16 (as claimed): every record lookupOneBook returns, matched or not, has
\* the identified-book fields of its input record, with the enrichment fields
\* and matched.
C16_EnrichedBookShape ==
  rpc = "done" =>
    /\ (DOMAIN rbook \cap IdentifiedFields) \subseteq DOMAIN rresult
    /\ EnrichmentFields \subseteq DOMAIN rresult
    /\ "matched" \in DOMAIN rresult

\* A record returned without an accepted document has exactly the fields of
\* the input record, with their values, and matched = false.
UnmatchedKeepsRecord ==
  (rpc = "done" /\ raccepted = NotAccepted) =>
    /\ DOMAIN rresult = DOMAIN rbook \cup {"matched"}
    /\ \A f \in DOMAIN rbook : rresult[f] = rbook[f]
    /\ rresult.matched = FALSE

\* lookupOneBook has ended without accepting a document.
EndedUnmatched == rpc \in {"done", "rejected"} /\ raccepted = NotAccepted

\* C17 (as claimed): when no document is accepted, lookupOneBook returns (it
\* does not throw) the input record's fields with their values and
\* matched = false; and it never changes the input record.
C17_UnmatchedPreserved ==
  /\ [](EndedUnmatched => rpc = "done")
  /\ []UnmatchedKeepsRecord
  /\ [][rbook' = rbook]_vars

\* lookupOneBook has returned the record with matched = false.
ReturnedUnmatched == rpc = "done" /\ raccepted = NotAccepted

\* The strategies whose search was issued.
SearchedStrategies == {rsearches[n].strategy : n \in 1..Len(rsearches)}

\* C23 (as claimed): a record is returned with matched = false only after the
\* search of each of the six strategies was issued; no strategy is skipped.
C23_UnmatchedAfterAllSix ==
  ReturnedUnmatched => SearchedStrategies = 1..6

\* C23 (amended): a record is returned with matched = false only after the
\* search of every strategy whose query has 2 characters or more was issued,
\* once each and in rising order, and the last of them returned no document
\* that passes the strategy's filters; the strategies whose query is shorter
\* are skipped without a search.
C23_UnmatchedAfterEveryUsableStrategy ==
  ReturnedUnmatched =>
    /\ SearchedStrategies =
         {k \in 1..6 : Len(strategyQuery(rbook, k)) >= 2}
    /\ SearchesInOrder
    /\ rsearches # <<>> =>
         \A r \in 1..Len(searchResult(rreply)) :
           ~acceptsTable[rbook][rsearches[Len(rsearches)].strategy]
                        [searchResult(rreply)[r]]

\* "X" by Stephen King returned unmatched after the one search of strategy 1,
\* which returned a document that was filtered out.
C23_Witness ==
  /\ ReturnedUnmatched
  /\ rbook = BookX
  /\ Len(rsearches) = 1
  /\ rsearches[1].strategy = 1
  /\ searchResult(rreply) # <<>>

\* The accepted document passes the author filter for the record's author.
AcceptedAuthorMatches ==
  authorsMatch(rbook.author, join(AcceptedDoc.author_name, CommaSpace))

\* The search of strategy 5 or 6 is issued only after the search of every
\* strategy from 1 to 4 that has a query of 2 characters or more.
LastResortAfterFiltered ==
  \A n \in 1..Len(rsearches) :
    rsearches[n].strategy \in {5, 6} =>
      \A k \in 1..4 :
        Len(strategyQuery(rbook, k)) >= 2 =>
          \E m \in 1..(n - 1) : rsearches[m].strategy = k

\* C25: every document accepted by strategies 1 to 4 passes
\* authorsMatch(record author, the document's authors joined by ", "); a
\* document that fails it is accepted by strategy 5 or 6 only, and those are
\* searched only after strategies 1 to 4 were searched and accepted nothing.
C25_AuthorFilterByStrategy ==
  /\ (Matched /\ raccepted.strategy \in 1..4) => AcceptedAuthorMatches
  /\ (Matched /\ ~AcceptedAuthorMatches) => raccepted.strategy \in {5, 6}
  /\ LastResortAfterFiltered
  /\ (rsearches # <<>> /\ rsearches[Len(rsearches)].strategy \in {5, 6}) =>
       raccepted.strategy \notin 1..4

\* "It" by Stephen King matched by strategy 5 with "Emma" by Jane Austen,
\* which fails the author filter, after the searches of strategies 1 to 4.
C25_Witness ==
  /\ Matched
  /\ rbook = BookIt
  /\ raccepted.strategy = 5
  /\ AcceptedDoc = DocEmma
  /\ ~AcceptedAuthorMatches
  /\ Len(rsearches) = 5

\* ------------------------------------------------------------------------
\* Properties of POST /api/lookup
\* ------------------------------------------------------------------------

\* res is what lookupOneBook can return for the record: the record marked
\* unmatched, or the result made of one of the service's documents.
IsResolutionOf(res, book) ==
  \/ res = unmatchedResult(book)
  \/ \E doc \in LookupDocs : res = docToResult(doc, book)

\* Every list a lookup returns has one element per record of the request, the
\* element at index i being what the call for record i returned.
ReturnedListsAreOneToOne ==
  \A k \in 1..Len(lresponses) :
    lresponses[k].status = 200 =>
      /\ Len(lresponses[k].books) = Len(lbody.books)
      /\ \A i \in 1..Len(lbody.books) :
           /\ lresponses[k].books[i] = lresults[i]
           /\ IsResolutionOf(lresponses[k].books[i], lbody.books[i])

\* C11 (as claimed): for any list of records, the lookup answers with a list
\* of the same length whose element at index i is the resolution of record i,
\* in whatever order the concurrent calls completed.
C11_OneToOneInOrder ==
  (lpc = "responded" /\ lbody.kind = "array") =>
    /\ Len(lresponses) = 1
    /\ lresponses[1].status = 200
    /\ Len(lresponses[1].books) = Len(lbody.books)
    /\ \A i \in 1..Len(lbody.books) :
         IsResolutionOf(lresponses[1].books[i], lbody.books[i])

\* C12 (as claimed): for any list of records, no failure while one record is
\* resolved makes the lookup fail: no call of lookupOneBook throws and no
\* request is answered with an error.
C12_FailureNeverFatal ==
  lbody.kind = "array" =>
    /\ \A i \in 1..Len(lresults) : lresults[i] # RejectedRecord
    /\ \A k \in 1..Len(lresponses) : lresponses[k].status = 200

====
